---- MODULE Spec2Model ----
(***************************************************************************)
(* Order lifecycle of the restaurant backend (core/services, core/views):  *)
(* orders, line items, stock, tables and invoices, as the request handlers *)
(* read and write them through the ORM.                                    *)
(*                                                                         *)
(* Conventions                                                             *)
(*  - The five tables are the variables productos, mesas, ordenes,         *)
(*    orden_productos and facturas (the db_table names of core/models.py). *)
(*    Rows of ordenes, orden_productos and facturas are kept in creation   *)
(*    order; the id of a row is its position.                              *)
(*  - A model instance is a copy of a row taken when the query ran;        *)
(*    instance.save() writes every field of the copy back to the row.      *)
(*  - orden.productos_ordenados is read as the code uses it: the line      *)
(*    items of the order.  Factura.orden is a ForeignKey without           *)
(*    related_name (core/models.py), so an Orden has the manager           *)
(*    factura_set and no attribute factura: reading orden.factura raises   *)
(*    AttributeError and hasattr(orden, 'factura') is False.  The queries  *)
(*    Factura.objects.get(orden=...) and .filter(orden=...) work.          *)
(*  - Concurrent requests run under READ COMMITTED with row locks held     *)
(*    from a row's UPDATE to the commit (the isolation Django asks of       *)
(*    PostgreSQL and MySQL by default).                                    *)
(*  - Authentication, permissions and the request de-duplication guard     *)
(*    sit in front of the handlers and are not part of this state machine: *)
(*    the actor of a request is taken to be allowed to make it.            *)
(*  - A timestamp field is 0 when it is NULL and otherwise counts how      *)
(*    often the field has been set since it last was NULL.                 *)
(***************************************************************************)
EXTENDS Integers, Sequences, FiniteSets, TLC

\* ------------------------------------------------------------------------
\* Bounds of the model
\* ------------------------------------------------------------------------
MaxOrdenes == 1
MaxItems == 2
MaxLineas == 2
MaxCantidad == 3
StockInicial == 2
\* Caps on what repeated requests can grow without limit: stock above its
\* initial value (refunds) and the number of times a timestamp is rewritten.
MaxExceso == 1
MaxSello == 2
\* Concurrent requests: how many requests a run makes in all, how many line
\* items they may leave, and how many lines one request may have.
MaxPeticiones == 4
MaxItemsConc == 3
MaxLineasConc == 1

\* Table occupancy: how many orders may be open when one more is asked for.
MaxOrdenesMesas == 2
\* Long polling: how many times the loop sleeps before its timeout.
MaxEsperas == 2
\* Notifier calls made by the two workers.
MaxAvisos == 4
\* The debounce guard: requests with one key, how far the clock runs, and
\* the length of a tick of the clock in hundredths of a second.
MaxInvocaciones == 4
MaxReloj == 5
Tick == 25

\* ------------------------------------------------------------------------
\* Program constants
\* ------------------------------------------------------------------------
MESA_DOMICILIO == 0
MESA_RESERVA == 50
MesasVirtuales == {MESA_DOMICILIO, MESA_RESERVA}

\* The catalog and the table registry of the modelled restaurant: two
\* products (unit prices 1 and 2), the delivery table and one physical table.
Productos == {1, 2}
PrecioCatalogo == [p \in Productos |-> p]
Mesas == {0, 1}

\* A request's item list: productos_pedido / productos_nuevos.
LineaPedido == [id : Productos, cantidad : 1..MaxCantidad]
Pedidos == UNION {[1..n -> LineaPedido] : n \in 1..MaxLineas}
PedidosConc == UNION {[1..n -> LineaPedido] : n \in 1..MaxLineasConc}

\* What the environment does to a request: nothing ("ok"), the cache backend
\* raises on cache.get / cache.set ("cache_caida"), or the database raises on
\* one of the handler's writes ("bd_caida").
Entornos == {"ok", "cache_caida", "bd_caida"}

\* The two workers that can be inside a handler at the same time.
Procesos == {1, 2}

\* peticiones[p] is the request worker p is handling and how far it got,
\* restantes the number of requests still to come, carrera the pair of
\* overlapping requests under observation.  cache holds the entries of the
\* Django cache under observation, sondeo the long-poll request of the one
\* polling client, reloj the value of time.time() in ticks.
VARIABLES productos, mesas, ordenes, orden_productos, facturas,
          senal_conectada, entorno, respuesta,
          peticiones, restantes, carrera,
          cache, sondeo, reloj

tablas == <<productos, mesas, ordenes, orden_productos, facturas>>
concurrencia == <<peticiones, restantes, carrera>>
tiempo_real == <<cache, sondeo, reloj>>
vars == <<productos, mesas, ordenes, orden_productos, facturas,
          senal_conectada, entorno, respuesta,
          peticiones, restantes, carrera,
          cache, sondeo, reloj>>

\* The database as one value; log lists the writes made through it.
DB == [productos |-> productos, mesas |-> mesas, ordenes |-> ordenes,
       orden_productos |-> orden_productos, facturas |-> facturas,
       senal |-> senal_conectada, en_senal |-> FALSE, error |-> "",
       log |-> <<>>]

\* ------------------------------------------------------------------------
\* core/utils.py
\* ------------------------------------------------------------------------
RECURSIVE SumaItems(_, _, _)
SumaItems(items, orden_id, n) ==
    IF n = 0 THEN 0
    ELSE SumaItems(items, orden_id, n - 1)
         + (IF items[n].orden = orden_id
            THEN items[n].cantidad * items[n].precio_unitario ELSE 0)

\* calcular_total_orden: sum of cantidad * precio_unitario over the items.
calcular_total_orden(db, orden_id) ==
    SumaItems(db.orden_productos, orden_id, Len(db.orden_productos))

\* orden.productos_ordenados.filter(estado='PENDIENTE')
ItemsPendientes(db, orden_id) ==
    {i \in 1..Len(db.orden_productos) :
        /\ db.orden_productos[i].orden = orden_id
        /\ db.orden_productos[i].estado = "PENDIENTE"}

\* Factura.objects.filter(orden=orden)
FacturasDeOrden(db, orden_id) ==
    {f \in 1..Len(db.facturas) : db.facturas[f].orden = orden_id}

\* ------------------------------------------------------------------------
\* ORM writes
\* ------------------------------------------------------------------------
\* id = 0 is an INSERT; senal tells a write of the post_save receiver from a
\* write of the handler itself.
Escribe(db, tabla, id, fila) ==
    Append(db.log, [tabla |-> tabla, id |-> id, fila |-> fila,
                    senal |-> db.en_senal])

save_producto(db, id, inst) ==
    [db EXCEPT !.productos[id] = inst,
               !.log = Escribe(db, "productos", id, inst)]

save_mesa(db, id, inst) ==
    [db EXCEPT !.mesas[id] = inst,
               !.log = Escribe(db, "mesas", id, inst)]

create_factura(db, inst) ==
    [db EXCEPT !.facturas = Append(@, inst),
               !.log = Escribe(db, "facturas", 0, inst)]

save_factura(db, id, inst) ==
    [db EXCEPT !.facturas[id] = inst,
               !.log = Escribe(db, "facturas", id, inst)]

create_item(db, inst) ==
    [db EXCEPT !.orden_productos = Append(@, inst),
               !.log = Escribe(db, "orden_productos", 0, inst)]

save_item(db, id, inst) ==
    [db EXCEPT !.orden_productos[id] = inst,
               !.log = Escribe(db, "orden_productos", id, inst)]

\* core/signals.py: post_save receiver of Orden.
crear_o_actualizar_factura(db, orden_id, instance) ==
    IF instance.estado # "LISTA" THEN db
    ELSE LET fs == FacturasDeOrden(db, orden_id)
             total_orden == calcular_total_orden(db, orden_id)
         IN IF fs = {}
            THEN create_factura(db, [orden |-> orden_id,
                                     subtotal |-> total_orden,
                                     total |-> total_orden,
                                     estado_pago |-> "NO_PAGADA",
                                     pagado_en |-> 0, observaciones |-> 0])
            ELSE LET f == CHOOSE x \in fs : \A y \in fs : x <= y
                 IN IF db.facturas[f].total # total_orden
                    THEN save_factura(db, f,
                            [db.facturas[f] EXCEPT !.subtotal = total_orden,
                                                   !.total = total_orden])
                    ELSE db

post_save_orden(db, id, inst) ==
    IF db.senal
    THEN [crear_o_actualizar_factura([db EXCEPT !.en_senal = TRUE], id, inst)
            EXCEPT !.en_senal = FALSE]
    ELSE db

create_orden(db, inst) ==
    post_save_orden(
        [db EXCEPT !.ordenes = Append(@, inst),
                   !.log = Escribe(db, "ordenes", 0, inst)],
        Len(db.ordenes) + 1, inst)

save_orden(db, id, inst) ==
    post_save_orden(
        [db EXCEPT !.ordenes[id] = inst,
                   !.log = Escribe(db, "ordenes", id, inst)],
        id, inst)

\* ------------------------------------------------------------------------
\* Responses
\* ------------------------------------------------------------------------
\* What the last request was (operation and target id) and how it ended;
\* excede is the position of the first line of its item list that asked for
\* more than the stock the product had when the request arrived (0: none),
\* monto the amount a payment or refund request carried.
Resp(op, id, error) ==
    [op |-> op, id |-> id, ok |-> (error = ""), error |-> error,
     excede |-> 0, monto |-> 0]

\* ------------------------------------------------------------------------
\* CreateOrder: MeseroService.crear_orden_completa
\* ------------------------------------------------------------------------
\* Validation loop: one Producto instance per item line.
crear_orden_completa_validar(db, pedido) ==
    [i \in 1..Len(pedido) |->
        LET producto == db.productos[pedido[i].id]
            cantidad == pedido[i].cantidad
        IN [id |-> pedido[i].id, producto |-> producto, cantidad |-> cantidad,
            error |-> IF cantidad <= 0 THEN "InvalidInput"
                      ELSE IF producto.cantidad < cantidad
                           THEN "InsufficientStock" ELSE ""]]

PrimerError(validados) ==
    IF \A i \in 1..Len(validados) : validados[i].error = "" THEN ""
    ELSE validados[CHOOSE i \in 1..Len(validados) :
                      /\ validados[i].error # ""
                      /\ \A j \in 1..(i - 1) : validados[j].error = ""].error

crear_orden_completa_leer(db, mesa_id, pedido) ==
    LET validados == crear_orden_completa_validar(db, pedido)
        mesa == db.mesas[mesa_id]
    IN [mesa_id |-> mesa_id, mesa |-> mesa, validados |-> validados,
        error |-> IF pedido = <<>> THEN "InvalidInput"
                  ELSE IF PrimerError(validados) # "" THEN PrimerError(validados)
                  ELSE IF mesa_id \notin MesasVirtuales /\ mesa.estado # "LIBRE"
                       THEN "TableUnavailable" ELSE ""]

\* Item loop: each line writes the instance it validated.
RECURSIVE AgregarValidados(_, _, _, _)
AgregarValidados(db, orden_id, validados, n) ==
    IF n = 0 THEN db
    ELSE LET d == AgregarValidados(db, orden_id, validados, n - 1)
             v == validados[n]
             d1 == create_item(d, [orden |-> orden_id, producto |-> v.id,
                                   cantidad |-> v.cantidad,
                                   precio_unitario |-> v.producto.precio,
                                   estado |-> "PENDIENTE", listo_en |-> 0])
         IN save_producto(d1, v.id,
                [v.producto EXCEPT !.cantidad = @ - v.cantidad])

crear_orden_completa_escribir(db, loc) ==
    LET nueva_orden == Len(db.ordenes) + 1
        d1 == create_orden(db, [mesa |-> loc.mesa_id, estado |-> "EN_PROCESO",
                                listo_en |-> 0])
        d2 == AgregarValidados(d1, nueva_orden, loc.validados,
                               Len(loc.validados))
    IN IF loc.mesa_id \notin MesasVirtuales
       THEN save_mesa(d2, loc.mesa_id, [loc.mesa EXCEPT !.estado = "OCUPADA"])
       ELSE d2

\* ------------------------------------------------------------------------
\* CreateOrder: api_crear_orden_tiempo_real
\* ------------------------------------------------------------------------
api_crear_orden_leer(db, mesa_id, pedido) ==
    [mesa_id |-> mesa_id, mesa |-> db.mesas[mesa_id], pedido |-> pedido,
     error |-> IF pedido = <<>> THEN "InvalidInput"
               ELSE IF \E i \in 1..Len(pedido) :
                     db.productos[pedido[i].id].cantidad < pedido[i].cantidad
               THEN "InsufficientStock" ELSE ""]

\* Item loop: each line fetches the product again.
RECURSIVE AgregarPedido(_, _, _, _)
AgregarPedido(db, orden_id, pedido, n) ==
    IF n = 0 THEN db
    ELSE LET d == AgregarPedido(db, orden_id, pedido, n - 1)
             item == pedido[n]
             producto == d.productos[item.id]
             d1 == create_item(d, [orden |-> orden_id, producto |-> item.id,
                                   cantidad |-> item.cantidad,
                                   precio_unitario |-> producto.precio,
                                   estado |-> "PENDIENTE", listo_en |-> 0])
         IN save_producto(d1, item.id,
                [producto EXCEPT !.cantidad = @ - item.cantidad])

api_crear_orden_escribir(db, loc) ==
    LET nueva_orden == Len(db.ordenes) + 1
        d1 == create_orden(db, [mesa |-> loc.mesa_id, estado |-> "EN_PROCESO",
                                listo_en |-> 0])
        d2 == AgregarPedido(d1, nueva_orden, loc.pedido, Len(loc.pedido))
    IN save_mesa(d2, loc.mesa_id, [loc.mesa EXCEPT !.estado = "OCUPADA"])


\* ------------------------------------------------------------------------
\* AddItems: MeseroService.agregar_productos_a_orden,
\*           api_agregar_productos_orden, api_agregar_productos_orden_facturada
\* ------------------------------------------------------------------------
\* Factura.objects.get(orden=orden): 0 when DoesNotExist, -1 when
\* MultipleObjectsReturned, else the id of the invoice.
FacturaDe(db, orden_id) ==
    LET fs == FacturasDeOrden(db, orden_id)
    IN IF fs = {} THEN 0
       ELSE IF Cardinality(fs) > 1 THEN -1
       ELSE CHOOSE f \in fs : TRUE

EstadosPagoPendiente == {"NO_PAGADA", "PARCIAL"}

\* hasattr(orden, 'factura'): Orden has no such attribute.
hasattr_factura(db, orden_id) == FALSE

\* The service reads orden.factura in a try that catches only
\* Factura.DoesNotExist: the AttributeError reaches the handler's
\* "except Exception" and the request ends with an error.
agregar_productos_a_orden_leer(db, orden_id, pedido) ==
    LET orden == db.ordenes[orden_id]
        tiene_factura_pendiente == FALSE
        validados == crear_orden_completa_validar(db, pedido)
    IN [orden_id |-> orden_id, orden |-> orden, factura_id |-> 0,
        factura |-> <<>>,
        tiene_factura_pendiente |-> tiene_factura_pendiente,
        validados |-> validados,
        error |-> IF ~hasattr_factura(db, orden_id) THEN "Error"
                  ELSE IF orden.estado = "SERVIDA" /\ ~tiene_factura_pendiente
                       THEN "OrderClosed"
                  ELSE PrimerError(validados)]

RECURSIVE TotalValidados(_, _)
TotalValidados(validados, n) ==
    IF n = 0 THEN 0
    ELSE TotalValidados(validados, n - 1)
         + validados[n].cantidad * validados[n].producto.precio

agregar_productos_a_orden_escribir_sin_reabrir(db, loc) ==
    LET d1 == AgregarValidados(db, loc.orden_id, loc.validados,
                               Len(loc.validados))
    IN d1

agregar_productos_a_orden_escribir(db, loc) ==
    LET d1 == AgregarValidados(db, loc.orden_id, loc.validados,
                               Len(loc.validados))
        total_agregado == TotalValidados(loc.validados, Len(loc.validados))
        d2 == IF loc.tiene_factura_pendiente
              THEN save_factura(d1, loc.factura_id,
                      [loc.factura EXCEPT !.subtotal = @ + total_agregado,
                                          !.total = @ + total_agregado])
              ELSE d1
    IN IF loc.orden.estado = "LISTA"
       THEN save_orden(d2, loc.orden_id,
               [loc.orden EXCEPT !.estado = "EN_PROCESO", !.listo_en = 0])
       ELSE IF loc.orden.estado = "SERVIDA" /\ loc.tiene_factura_pendiente
       THEN save_orden(d2, loc.orden_id,
               [loc.orden EXCEPT !.estado = "EN_PROCESO"])
       ELSE d2

\* The view swallows every exception of reading orden.factura and goes on
\* without an invoice: factura stays None, tiene_factura_pendiente False.
api_agregar_productos_orden_leer(db, orden_id, pedido) ==
    LET orden == db.ordenes[orden_id]
        tiene_factura_pendiente == FALSE
        validados == crear_orden_completa_validar(db, pedido)
    IN [orden_id |-> orden_id, orden |-> orden, factura_id |-> 0,
        factura |-> <<>>,
        tiene_factura_pendiente |-> tiene_factura_pendiente,
        validados |-> validados,
        error |-> IF pedido = <<>> THEN "InvalidInput"
                  ELSE IF orden.estado = "SERVIDA" /\ ~tiene_factura_pendiente
                  THEN "OrderClosed"
                  ELSE PrimerError(validados)]

api_agregar_productos_orden_escribir(db, loc) ==
    agregar_productos_a_orden_escribir(db, loc)

\* Reading orden.factura raises AttributeError, which the view's
\* "except Exception" around the invoice check answers with status 500.
api_agregar_productos_orden_facturada_leer(db, orden_id, pedido) ==
    LET orden == db.ordenes[orden_id]
    IN [orden_id |-> orden_id, orden |-> orden, factura_id |-> 0,
        factura |-> <<>>,
        pedido |-> pedido,
        error |-> IF ~hasattr_factura(db, orden_id) THEN "Error"
                  ELSE IF pedido = <<>> THEN "InvalidInput"
                  ELSE IF \E i \in 1..Len(pedido) :
                            db.productos[pedido[i].id].cantidad
                                < pedido[i].cantidad
                       THEN "InsufficientStock"
                  ELSE ""]

RECURSIVE TotalPedido(_, _, _)
TotalPedido(db, pedido, n) ==
    IF n = 0 THEN 0
    ELSE TotalPedido(db, pedido, n - 1)
         + pedido[n].cantidad * db.productos[pedido[n].id].precio

api_agregar_productos_orden_facturada_escribir(db, loc) ==
    LET d1 == AgregarPedido(db, loc.orden_id, loc.pedido, Len(loc.pedido))
        total_agregado == TotalPedido(db, loc.pedido, Len(loc.pedido))
        d2 == save_factura(d1, loc.factura_id,
                 [loc.factura EXCEPT !.subtotal = @ + total_agregado,
                                     !.total = @ + total_agregado])
    IN save_orden(d2, loc.orden_id,
          [loc.orden EXCEPT !.estado = "EN_PROCESO", !.listo_en = 0])

\* ------------------------------------------------------------------------
\* MarkItemReady: CocinaService.marcar_producto_listo,
\*                api_marcar_producto_listo_tiempo_real
\* ------------------------------------------------------------------------
ESTADOS_ORDEN_ACTIVA == {"EN_PROCESO", "NUEVA", "LISTA"}

\* timezone.now() stored into a timestamp field.
Ahora(previo) == previo + 1

\* The lookup without the test of the item's state.
marcar_producto_listo_leer_sin_estado(db, producto_orden_id) ==
    LET producto_orden == db.orden_productos[producto_orden_id]
        orden == db.ordenes[producto_orden.orden]
    IN [producto_orden_id |-> producto_orden_id,
        producto_orden |-> producto_orden,
        orden_id |-> producto_orden.orden, orden |-> orden,
        error |-> IF orden.estado \notin ESTADOS_ORDEN_ACTIVA
                  THEN "OrderNotActive" ELSE ""]

marcar_producto_listo_leer(db, producto_orden_id) ==
    LET producto_orden == db.orden_productos[producto_orden_id]
        orden == db.ordenes[producto_orden.orden]
    IN [producto_orden_id |-> producto_orden_id,
        producto_orden |-> producto_orden,
        orden_id |-> producto_orden.orden, orden |-> orden,
        error |-> IF producto_orden.estado = "LISTO" THEN "AlreadyReady"
                  ELSE IF orden.estado \notin ESTADOS_ORDEN_ACTIVA
                       THEN "OrderNotActive"
                  ELSE ""]

\* Second half of both handlers: count the PENDIENTE items, close the order.
CerrarSiCompleta(db, loc) ==
    IF ItemsPendientes(db, loc.orden_id) = {}
    THEN save_orden(db, loc.orden_id,
            [loc.orden EXCEPT !.estado = "LISTA",
                              !.listo_en = Ahora(loc.orden.listo_en)])
    ELSE db

MarcarItem(db, loc) ==
    save_item(db, loc.producto_orden_id,
        [loc.producto_orden EXCEPT
            !.estado = "LISTO",
            !.listo_en = Ahora(loc.producto_orden.listo_en)])

marcar_producto_listo_escribir(db, loc) ==
    CerrarSiCompleta(MarcarItem(db, loc), loc)

api_marcar_producto_listo_leer(db, producto_orden_id) ==
    LET producto_orden == db.orden_productos[producto_orden_id]
    IN [producto_orden_id |-> producto_orden_id,
        producto_orden |-> producto_orden,
        orden_id |-> producto_orden.orden,
        orden |-> db.ordenes[producto_orden.orden],
        error |-> IF producto_orden.estado = "LISTO" THEN "AlreadyReady"
                  ELSE ""]

api_marcar_producto_listo_escribir(db, loc) ==
    CerrarSiCompleta(MarcarItem(db, loc), loc)

\* ------------------------------------------------------------------------
\* DecrementItem: CocinaService.decrementar_producto,
\*                api_decrementar_producto_tiempo_real
\* ------------------------------------------------------------------------
\* The checks without the one of the quantity.
decrementar_producto_leer_sin_minimo(db, producto_orden_id) ==
    LET producto_orden == db.orden_productos[producto_orden_id]
        orden == db.ordenes[producto_orden.orden]
    IN [producto_orden_id |-> producto_orden_id,
        producto_orden |-> producto_orden,
        producto |-> db.productos[producto_orden.producto],
        error |-> IF orden.estado \notin {"EN_PROCESO", "NUEVA"}
                  THEN "OrderNotActive"
                  ELSE IF producto_orden.estado = "LISTO" THEN "AlreadyReady"
                  ELSE ""]

decrementar_producto_leer(db, producto_orden_id) ==
    LET producto_orden == db.orden_productos[producto_orden_id]
        orden == db.ordenes[producto_orden.orden]
    IN [producto_orden_id |-> producto_orden_id,
        producto_orden |-> producto_orden,
        producto |-> db.productos[producto_orden.producto],
        error |-> IF orden.estado \notin {"EN_PROCESO", "NUEVA"}
                  THEN "OrderNotActive"
                  ELSE IF producto_orden.estado = "LISTO" THEN "AlreadyReady"
                  ELSE IF producto_orden.cantidad <= 1 THEN "AtMinimum"
                  ELSE ""]

\* The decrement without the unit given back to the stock.
decrementar_producto_escribir_sin_stock(db, loc) ==
    save_item(db, loc.producto_orden_id,
        [loc.producto_orden EXCEPT !.cantidad = @ - 1])

\* select_related: the product instance was loaded with the line item.
decrementar_producto_escribir(db, loc) ==
    LET d1 == save_item(db, loc.producto_orden_id,
                 [loc.producto_orden EXCEPT !.cantidad = @ - 1])
    IN save_producto(d1, loc.producto_orden.producto,
          [loc.producto EXCEPT !.cantidad = @ + 1])

\* producto_orden.producto is loaded for the response message before the
\* line item is saved, and that instance is the one written back.
api_decrementar_producto_leer(db, producto_orden_id) ==
    decrementar_producto_leer(db, producto_orden_id)

api_decrementar_producto_escribir(db, loc) ==
    decrementar_producto_escribir(db, loc)

\* ------------------------------------------------------------------------
\* Force-complete: MeseroService.marcar_orden_como_lista,
\*                 api_marcar_orden_lista_manual,
\*                 CocinaService.marcar_orden_completa
\* ------------------------------------------------------------------------
\* The checks without the one that turns a SERVIDA order away.
marcar_orden_como_lista_leer_sin_servida(db, orden_id) ==
    LET orden == db.ordenes[orden_id]
    IN [orden_id |-> orden_id, orden |-> orden,
        error |-> IF orden.estado = "LISTA" THEN "AlreadyReady" ELSE ""]

marcar_orden_como_lista_leer(db, orden_id) ==
    LET orden == db.ordenes[orden_id]
    IN [orden_id |-> orden_id, orden |-> orden,
        error |-> IF orden.estado = "LISTA" THEN "AlreadyReady"
                  ELSE IF orden.estado = "SERVIDA" THEN "OrderClosed"
                  ELSE ""]

\* Loop over orden.productos_ordenados.filter(estado='PENDIENTE').
RECURSIVE MarcarPendientes(_, _, _)
MarcarPendientes(db, orden_id, n) ==
    IF n = 0 THEN db
    ELSE LET d == MarcarPendientes(db, orden_id, n - 1)
             po == db.orden_productos[n]
         IN IF po.orden = orden_id /\ po.estado = "PENDIENTE"
            THEN save_item(d, n, [po EXCEPT !.estado = "LISTO",
                                            !.listo_en = Ahora(po.listo_en)])
            ELSE d

marcar_orden_como_lista_escribir(db, loc) ==
    LET d1 == MarcarPendientes(db, loc.orden_id, Len(db.orden_productos))
    IN save_orden(d1, loc.orden_id,
          [loc.orden EXCEPT !.estado = "LISTA",
                            !.listo_en = Ahora(loc.orden.listo_en)])

api_marcar_orden_lista_manual_leer(db, orden_id) ==
    marcar_orden_como_lista_leer(db, orden_id)

api_marcar_orden_lista_manual_escribir(db, loc) ==
    marcar_orden_como_lista_escribir(db, loc)

marcar_orden_completa_leer(db, orden_id) ==
    LET orden == db.ordenes[orden_id]
    IN [orden_id |-> orden_id, orden |-> orden,
        error |-> IF orden.estado \notin ESTADOS_ORDEN_ACTIVA
                  THEN "OrderNotActive"
                  ELSE IF orden.estado = "LISTA" THEN "AlreadyReady"
                  ELSE ""]

marcar_orden_completa_escribir(db, loc) ==
    LET d1 == MarcarPendientes(db, loc.orden_id, Len(db.orden_productos))
    IN IF ItemsPendientes(db, loc.orden_id) # {}
       THEN save_orden(d1, loc.orden_id,
               [loc.orden EXCEPT !.estado = "LISTA",
                                 !.listo_en = Ahora(loc.orden.listo_en)])
       ELSE d1

\* ------------------------------------------------------------------------
\* ServeOrder: MeseroService.entregar_orden, api_marcar_orden_entregada,
\*             api_marcar_orden_servida
\* ------------------------------------------------------------------------
entregar_orden_leer(db, orden_id) ==
    LET orden == db.ordenes[orden_id]
    IN [orden_id |-> orden_id, orden |-> orden,
        error |-> IF orden.estado # "LISTA" THEN "NotReady"
                  ELSE IF ItemsPendientes(db, orden_id) # {}
                       THEN "ItemsPending"
                  ELSE ""]

\* "Gestionar factura": get the invoice of the order and overwrite it, or
\* create it; MultipleObjectsReturned ends the handler in its except branch.
GestionarFactura(db, orden_id, total_orden) ==
    LET f == FacturaDe(db, orden_id)
    IN IF f = -1 THEN [db EXCEPT !.error = "Error"]
       ELSE IF f = 0
       THEN create_factura(db, [orden |-> orden_id, subtotal |-> total_orden,
                                total |-> total_orden,
                                estado_pago |-> "NO_PAGADA", pagado_en |-> 0,
                                observaciones |-> 0])
       ELSE save_factura(db, f,
               [db.facturas[f] EXCEPT !.estado_pago = "NO_PAGADA",
                                      !.subtotal = total_orden,
                                      !.total = total_orden])

entregar_orden_escribir(db, loc) ==
    LET total_orden == calcular_total_orden(db, loc.orden_id)
        d1 == save_orden(db, loc.orden_id,
                 [loc.orden EXCEPT !.estado = "SERVIDA"])
        mesa_id == loc.orden.mesa
        d2 == IF mesa_id \notin MesasVirtuales
              THEN save_mesa(d1, mesa_id,
                      [d1.mesas[mesa_id] EXCEPT !.estado = "LIBRE"])
              ELSE d1
    IN GestionarFactura(d2, loc.orden_id, total_orden)

api_marcar_orden_entregada_leer(db, orden_id) ==
    entregar_orden_leer(db, orden_id)

api_marcar_orden_entregada_escribir(db, loc) ==
    LET total_orden == calcular_total_orden(db, loc.orden_id)
        d1 == save_orden(db, loc.orden_id,
                 [loc.orden EXCEPT !.estado = "SERVIDA"])
        mesa_id == loc.orden.mesa
        d2 == save_mesa(d1, mesa_id,
                 [d1.mesas[mesa_id] EXCEPT !.estado = "LIBRE"])
    IN GestionarFactura(d2, loc.orden_id, total_orden)

api_marcar_orden_servida_leer(db, orden_id) ==
    entregar_orden_leer(db, orden_id)

api_marcar_orden_servida_escribir(db, loc) ==
    LET d1 == save_orden(db, loc.orden_id,
                 [loc.orden EXCEPT !.estado = "SERVIDA"])
        mesa_id == loc.orden.mesa
    IN save_mesa(d1, mesa_id, [d1.mesas[mesa_id] EXCEPT !.estado = "LIBRE"])

\* ------------------------------------------------------------------------
\* Invoices: CajeroService.crear_factura_orden, procesar_pago_factura,
\*           procesar_reembolso, api_marcar_factura_pagada
\* ------------------------------------------------------------------------
\* Factura.objects.create is called with cliente_telefono, which the model
\* does not have: the constructor raises and the handler reports the error.
crear_factura_orden_leer(db, orden_id) ==
    LET orden == db.ordenes[orden_id]
    IN [orden_id |-> orden_id, orden |-> orden,
        error |-> IF orden.estado \notin {"LISTA", "SERVIDA"} THEN "NotReady"
                  ELSE IF hasattr_factura(db, orden_id)
                       THEN "AlreadyInvoiced"
                  ELSE ""]

crear_factura_orden_escribir(db, loc) ==
    [db EXCEPT !.error = "Error"]

procesar_pago_factura_leer(db, factura_id, monto_pagado) ==
    LET factura == db.facturas[factura_id]
    IN [factura_id |-> factura_id, factura |-> factura,
        monto_pagado |-> monto_pagado,
        error |-> IF factura.estado_pago = "PAGADA" THEN "AlreadyPaid"
                  ELSE IF factura.estado_pago = "REEMBOLSADA" THEN "Refunded"
                  ELSE IF monto_pagado <= 0 THEN "InvalidAmount"
                  ELSE ""]

procesar_pago_factura_escribir(db, loc) ==
    LET pagada == loc.monto_pagado >= loc.factura.total
        d1 == save_factura(db, loc.factura_id,
                 [loc.factura EXCEPT
                    !.estado_pago = IF pagada THEN "PAGADA" ELSE "PARCIAL",
                    !.pagado_en = IF pagada THEN Ahora(@) ELSE @])
        mesa_id == d1.ordenes[loc.factura.orden].mesa
    IN IF pagada /\ mesa_id \notin MesasVirtuales
       THEN save_mesa(d1, mesa_id, [d1.mesas[mesa_id] EXCEPT !.estado = "LIBRE"])
       ELSE d1

\* monto_pagado = 0 is replaced by the invoice total; every admitted payment
\* marks the invoice PAGADA.
api_marcar_factura_pagada_leer(db, factura_id, monto_pagado) ==
    LET factura == db.facturas[factura_id]
    IN [factura_id |-> factura_id, factura |-> factura,
        monto_pagado |-> monto_pagado,
        error |-> IF factura.estado_pago = "PAGADA" THEN "AlreadyPaid"
                  ELSE ""]

api_marcar_factura_pagada_escribir(db, loc) ==
    LET d1 == save_factura(db, loc.factura_id,
                 [loc.factura EXCEPT !.estado_pago = "PAGADA",
                                     !.pagado_en = Ahora(@)])
        mesa_id == d1.ordenes[loc.factura.orden].mesa
    IN IF mesa_id \notin MesasVirtuales /\ d1.mesas[mesa_id].estado # "LIBRE"
       THEN save_mesa(d1, mesa_id, [d1.mesas[mesa_id] EXCEPT !.estado = "LIBRE"])
       ELSE d1

\* The checks without the one of the amount against the total.
procesar_reembolso_leer_sin_tope(db, factura_id, monto_reembolso) ==
    LET factura == db.facturas[factura_id]
    IN [factura_id |-> factura_id, factura |-> factura,
        monto_reembolso |-> monto_reembolso,
        error |-> IF factura.estado_pago # "PAGADA" THEN "NotPaid" ELSE ""]

\* monto_reembolso = 0 stands for None (refund of the full total).
procesar_reembolso_leer(db, factura_id, monto_reembolso) ==
    LET factura == db.facturas[factura_id]
    IN [factura_id |-> factura_id, factura |-> factura,
        monto_reembolso |-> monto_reembolso,
        error |-> IF factura.estado_pago # "PAGADA" THEN "NotPaid"
                  ELSE IF monto_reembolso > factura.total
                       THEN "AmountExceedsTotal"
                  ELSE ""]

\* Loop over orden.productos_ordenados.all(): each line loads its product.
RECURSIVE DevolverProductos(_, _, _)
DevolverProductos(db, orden_id, n) ==
    IF n = 0 THEN db
    ELSE LET d == DevolverProductos(db, orden_id, n - 1)
             po == db.orden_productos[n]
         IN IF po.orden = orden_id
            THEN save_producto(d, po.producto,
                    [d.productos[po.producto] EXCEPT
                        !.cantidad = @ + po.cantidad])
            ELSE d

\* The refund without the loop that returns the products.
procesar_reembolso_escribir_sin_devolucion(db, loc) ==
    save_factura(db, loc.factura_id,
        [loc.factura EXCEPT !.estado_pago = "REEMBOLSADA",
                            !.observaciones = @ + 1])

\* factura.observaciones gets one more "Reembolso: ..." line; the field is
\* kept as the number of those lines.
procesar_reembolso_escribir(db, loc) ==
    LET d1 == save_factura(db, loc.factura_id,
                 [loc.factura EXCEPT !.estado_pago = "REEMBOLSADA",
                                     !.observaciones = @ + 1])
    IN DevolverProductos(d1, loc.factura.orden, Len(d1.orden_productos))

\* ------------------------------------------------------------------------
\* core/utils.py: change detection
\* ------------------------------------------------------------------------
\* The cache while no entry of it is under observation, and the observed
\* cache before anything was stored: cache.get('notificacion_...', 0) answers
\* 0 for a missing counter, cache.get(debounce_key) answers None.
Ausente == 0 - 1
SinCache == [observada |-> FALSE]
Ninguno == [dado |-> FALSE, valor |-> {}]
CacheVacia == [observada |-> TRUE, notificacion_cocina |-> 0,
               notificacion_stock |-> 0, ultimo_hash_cocina |-> Ninguno,
               ultimo_hash_stock |-> Ninguno, debounce |-> Ausente]

cache_get(c, clave) == c[clave]
cache_set(c, clave, valor) == [c EXCEPT ![clave] = valor]

ClaveAviso(canal) ==
    IF canal = "cocina" THEN "notificacion_cocina" ELSE "notificacion_stock"

\* contador = cache.get('notificacion_...', 0)
notificar_cambio_leer(c, canal) == cache_get(c, ClaveAviso(canal))

\* cache.set('notificacion_...', contador + 1, 300)
notificar_cambio_escribir(c, canal, contador) ==
    cache_set(c, ClaveAviso(canal), contador + 1)

notificar_cambio_cocina(c) ==
    notificar_cambio_escribir(c, "cocina", notificar_cambio_leer(c, "cocina"))

notificar_cambio_stock(c) ==
    notificar_cambio_escribir(c, "stock", notificar_cambio_leer(c, "stock"))

\* The handlers that change stock call both notifiers, the others the
\* kitchen's only.
NotificaStock(op) == op \in {"CreateOrder", "AddItems", "DecrementItem"}

Notificar(c, op) ==
    IF ~c.observada THEN c
    ELSE IF NotificaStock(op)
         THEN notificar_cambio_stock(notificar_cambio_cocina(c))
         ELSE notificar_cambio_cocina(c)

\* A digest is the text that is hashed (MD5 taken as injective): for each
\* order in EN_PROCESO or NUEVA its id, its estado and the id, estado and
\* cantidad of each of its items.  dado tells a digest from None (Ninguno).
Hash(valor) == [dado |-> TRUE, valor |-> valor]

generar_hash_estado_cocina(db) ==
    Hash({[orden |-> o, estado |-> db.ordenes[o].estado,
           productos |-> {<<i, db.orden_productos[i].estado,
                            db.orden_productos[i].cantidad>> :
                          i \in {j \in 1..Len(db.orden_productos) :
                                   db.orden_productos[j].orden = o}}] :
          o \in {k \in 1..Len(db.ordenes) :
                   db.ordenes[k].estado \in {"EN_PROCESO", "NUEVA"}}})

generar_hash_stock(db) ==
    Hash([p \in Productos |-> db.productos[p].cantidad])

\* obtener_todas_ordenes_cocina, obtener_stock_productos: the snapshot that
\* goes with a changed digest.
obtener_todas_ordenes_cocina(db) ==
    {[id |-> o, orden |-> db.ordenes[o],
      productos |-> {[id |-> i, fila |-> db.orden_productos[i]] :
                     i \in {j \in 1..Len(db.orden_productos) :
                              db.orden_productos[j].orden = o}}] :
     o \in {k \in 1..Len(db.ordenes) :
              db.ordenes[k].estado \in {"EN_PROCESO", "NUEVA"}}}

obtener_stock_productos(db) ==
    [p \in Productos |-> [stock |-> db.productos[p].cantidad,
                          precio |-> db.productos[p].precio]]

\* hash_actual != hash_anterior
long_polling_cambio_sin_comparar(hash_actual, hash_anterior) == TRUE
long_polling_cambio(hash_actual, hash_anterior) ==
    \/ hash_actual.dado # hash_anterior.dado
    \/ hash_actual.valor # hash_anterior.valor

\* ------------------------------------------------------------------------
\* The sequential system: one request at a time; each handler runs from its
\* first query to the commit of its transaction before the next one starts.
\* ------------------------------------------------------------------------
Persistir(db) ==
    /\ productos' = db.productos
    /\ mesas' = db.mesas
    /\ ordenes' = db.ordenes
    /\ orden_productos' = db.orden_productos
    /\ facturas' = db.facturas

\* The bounds of the model: an accepted request must leave the stock and the
\* timestamps within them.
Acotado(db) ==
    /\ \A p \in Productos : db.productos[p].cantidad <= StockInicial + MaxExceso
    /\ \A o \in 1..Len(db.ordenes) : db.ordenes[o].listo_en <= MaxSello
    /\ \A f \in 1..Len(db.facturas) : db.facturas[f].pagado_en <= MaxSello

PrimeraExcedida(pedido) ==
    LET excedidas == {i \in 1..Len(pedido) :
                        productos[pedido[i].id].cantidad < pedido[i].cantidad}
    IN IF excedidas = {} THEN 0
       ELSE CHOOSE i \in excedidas : \A j \in excedidas : i <= j

\* A handler under @transaction.atomic whose body is one try / except
\* Exception: loc is what its queries and validations found, db2 the database
\* as its writes leave it, pedido the item list of the request (empty when it
\* carries none).  The handler always returns a response, so the transaction
\* is committed, unless a write raised: Model.save marks the transaction for
\* rollback before the except branch sees the error.  notifica: after its
\* writes the handler calls notificar_cambio_cocina / notificar_cambio_stock
\* outside any try of its own.
MontoDe(loc) ==
    IF "monto_pagado" \in DOMAIN loc THEN loc.monto_pagado
    ELSE IF "monto_reembolso" \in DOMAIN loc THEN loc.monto_reembolso
    ELSE 0

Responder(loc, db2, op, id, pedido, notifica) ==
    LET aborta == loc.error = "" /\ entorno = "bd_caida" /\ db2.log # <<>>
        error == IF loc.error # "" THEN loc.error
                 ELSE IF aborta THEN "Error"
                 ELSE IF db2.error # "" THEN db2.error
                 ELSE IF notifica /\ entorno = "cache_caida" THEN "Error"
                 ELSE ""
    IN /\ (loc.error = "" /\ ~aborta) => Acotado(db2)
       /\ respuesta' = [Resp(op, id, error)
                           EXCEPT !.excede = PrimeraExcedida(pedido),
                                  !.monto = MontoDe(loc)]
       /\ IF loc.error = "" /\ ~aborta
          THEN Persistir(db2) ELSE UNCHANGED tablas
       /\ cache' = IF error = "" /\ notifica THEN Notificar(cache, op)
                   ELSE cache
       /\ UNCHANGED <<senal_conectada, entorno, concurrencia, sondeo, reloj>>

AtenderP(loc, db2, op, id, pedido) ==
    Responder(loc, db2, op, id, pedido, TRUE)

Atender(loc, db2, op, id) == Responder(loc, db2, op, id, <<>>, TRUE)

\* The handlers that do not call the notifier, or call it in a try of its own.
AtenderSinNotificar(loc, db2, op, id, pedido) ==
    Responder(loc, db2, op, id, pedido, FALSE)

OrdenIds == 1..Len(ordenes)
ItemIds == 1..Len(orden_productos)
FacturaIds == 1..Len(facturas)

\* A request is considered while the rows it asks for fit in the tables.
CabeOrden(pedido) ==
    /\ Len(ordenes) < MaxOrdenes
    /\ Len(orden_productos) + Len(pedido) <= MaxItems

CabeItems(pedido) == Len(orden_productos) + Len(pedido) <= MaxItems

CrearOrdenServicio ==
    \E mesa_id \in Mesas, pedido \in Pedidos :
        /\ CabeOrden(pedido)
        /\ LET loc == crear_orden_completa_leer(DB, mesa_id, pedido)
           IN AtenderP(loc, crear_orden_completa_escribir(DB, loc),
                       "CreateOrder", Len(ordenes) + 1, pedido)

CrearOrdenApi ==
    \E mesa_id \in Mesas, pedido \in Pedidos :
        /\ CabeOrden(pedido)
        /\ LET loc == api_crear_orden_leer(DB, mesa_id, pedido)
           IN AtenderP(loc, api_crear_orden_escribir(DB, loc),
                       "CreateOrder", Len(ordenes) + 1, pedido)

AgregarServicio ==
    \E o \in OrdenIds, pedido \in Pedidos :
        /\ CabeItems(pedido)
        /\ LET loc == agregar_productos_a_orden_leer(DB, o, pedido)
           IN AtenderP(loc, agregar_productos_a_orden_escribir(DB, loc),
                       "AddItems", o, pedido)

AgregarApi ==
    \E o \in OrdenIds, pedido \in Pedidos :
        /\ CabeItems(pedido)
        /\ LET loc == api_agregar_productos_orden_leer(DB, o, pedido)
           IN AtenderSinNotificar(
                  loc, api_agregar_productos_orden_escribir(DB, loc),
                  "AddItems", o, pedido)

AgregarFacturadaApi ==
    \E o \in OrdenIds, pedido \in Pedidos :
        /\ CabeItems(pedido)
        /\ LET loc == api_agregar_productos_orden_facturada_leer(DB, o, pedido)
           IN AtenderP(loc,
                       api_agregar_productos_orden_facturada_escribir(DB, loc),
                          "AddItems", o, pedido)

MarcarListoServicio ==
    \E i \in ItemIds :
        LET loc == marcar_producto_listo_leer(DB, i)
        IN Atender(loc, marcar_producto_listo_escribir(DB, loc),
                   "MarkItemReady", i)

\* api_marcar_producto_listo_tiempo_real runs without transaction.atomic:
\* each save is committed at once, and a save that raises leaves the saves
\* before it in place.
MarcarListoApi ==
    \E i \in ItemIds :
        LET loc == api_marcar_producto_listo_leer(DB, i)
            db1 == MarcarItem(DB, loc)
            db2 == api_marcar_producto_listo_escribir(DB, loc)
        IN IF loc.error = "" /\ entorno = "bd_caida"
           THEN /\ respuesta' = Resp("MarkItemReady", i, "Error")
                /\ \/ UNCHANGED tablas
                   \/ /\ Len(db2.log) > Len(db1.log)
                      /\ Persistir(db1)
                /\ UNCHANGED <<senal_conectada, entorno, tiempo_real,
                               concurrencia>>
           ELSE Atender(loc, db2, "MarkItemReady", i)

DecrementarServicio ==
    \E i \in ItemIds :
        LET loc == decrementar_producto_leer(DB, i)
        IN Atender(loc, decrementar_producto_escribir(DB, loc),
                   "DecrementItem", i)

DecrementarApi ==
    \E i \in ItemIds :
        LET loc == api_decrementar_producto_leer(DB, i)
        IN Atender(loc, api_decrementar_producto_escribir(DB, loc),
                   "DecrementItem", i)

OrdenListaMesero ==
    \E o \in OrdenIds :
        LET loc == marcar_orden_como_lista_leer(DB, o)
        IN Atender(loc, marcar_orden_como_lista_escribir(DB, loc),
                   "ForceComplete", o)

OrdenListaApi ==
    \E o \in OrdenIds :
        LET loc == api_marcar_orden_lista_manual_leer(DB, o)
        IN Atender(loc, api_marcar_orden_lista_manual_escribir(DB, loc),
                   "ForceComplete", o)

OrdenCompletaCocina ==
    \E o \in OrdenIds :
        LET loc == marcar_orden_completa_leer(DB, o)
        IN Atender(loc, marcar_orden_completa_escribir(DB, loc),
                   "ForceComplete", o)

EntregarServicio ==
    \E o \in OrdenIds :
        LET loc == entregar_orden_leer(DB, o)
        IN Atender(loc, entregar_orden_escribir(DB, loc),
                   "ServeOrder", o)

EntregarApi ==
    \E o \in OrdenIds :
        LET loc == api_marcar_orden_entregada_leer(DB, o)
        IN Atender(loc, api_marcar_orden_entregada_escribir(DB, loc),
                   "ServeOrder", o)

ServidaApi ==
    \E o \in OrdenIds :
        LET loc == api_marcar_orden_servida_leer(DB, o)
        IN Atender(loc, api_marcar_orden_servida_escribir(DB, loc),
                   "ServeOrder", o)

CrearFactura ==
    \E o \in OrdenIds :
        LET loc == crear_factura_orden_leer(DB, o)
        IN AtenderSinNotificar(loc, crear_factura_orden_escribir(DB, loc),
                               "CreateInvoice", o, <<>>)

\* Amounts a cashier may enter for an invoice: a negative one, nothing, less
\* than the total, the total, more than the total.
Montos(f) == {-1, 0, facturas[f].total - 1, facturas[f].total,
              facturas[f].total + 1}

PagarServicio ==
    \E f \in FacturaIds : \E monto \in Montos(f) :
        LET loc == procesar_pago_factura_leer(DB, f, monto)
        IN AtenderSinNotificar(loc, procesar_pago_factura_escribir(DB, loc),
                               "PayInvoice", f, <<>>)

PagarApi ==
    \E f \in FacturaIds : \E monto \in Montos(f) :
        LET loc == api_marcar_factura_pagada_leer(DB, f, monto)
        IN AtenderSinNotificar(loc, api_marcar_factura_pagada_escribir(DB, loc),
                               "PayInvoice", f, <<>>)

Reembolsar ==
    \E f \in FacturaIds : \E monto \in Montos(f) :
        LET loc == procesar_reembolso_leer(DB, f, monto)
        IN AtenderSinNotificar(loc, procesar_reembolso_escribir(DB, loc),
                               "RefundInvoice", f, <<>>)

InitTablas ==
    /\ productos = [p \in Productos |->
                      [cantidad |-> StockInicial, precio |-> PrecioCatalogo[p]]]
    /\ mesas = [m \in Mesas |-> [estado |-> "LIBRE"]]
    /\ ordenes = <<>>
    /\ orden_productos = <<>>
    /\ facturas = <<>>
    /\ senal_conectada \in BOOLEAN
    /\ respuesta = Resp("", 0, "")

Libre == [fase |-> "libre"]
SinCarrera == [activa |-> FALSE]

\* One request at a time: no worker is ever inside a handler.
SinSondeo == [fase |-> "libre"]

\* No cache entry and no long poll under observation.
SinTiempoReal ==
    /\ cache = SinCache
    /\ sondeo = SinSondeo
    /\ reloj = 1

InitSecuencial ==
    /\ peticiones = [p \in Procesos |-> Libre]
    /\ restantes = 0
    /\ carrera = SinCarrera
    /\ SinTiempoReal

Init ==
    /\ InitTablas
    /\ InitSecuencial
    /\ entorno = "ok"

Next ==
    \/ CrearOrdenServicio
    \/ CrearOrdenApi
    \/ AgregarServicio
    \/ AgregarApi
    \/ AgregarFacturadaApi
    \/ MarcarListoServicio
    \/ MarcarListoApi
    \/ DecrementarServicio
    \/ DecrementarApi
    \/ OrdenListaMesero
    \/ OrdenListaApi
    \/ OrdenCompletaCocina
    \/ EntregarServicio
    \/ EntregarApi
    \/ ServidaApi
    \/ CrearFactura
    \/ PagarServicio
    \/ PagarApi
    \/ Reembolsar

Spec == Init /\ [][Next]_vars

\* ------------------------------------------------------------------------
\* Item lists as a client can send them: empty, or of one line whose
\* quantity is negative, zero or positive
\* ------------------------------------------------------------------------
LineaEntrada == [id : Productos, cantidad : {0 - 1, 0, 1}]
PedidosEntrada == {<<>>} \cup [1..1 -> LineaEntrada]

CrearOrdenEntradaServicio ==
    \E mesa_id \in Mesas, pedido \in PedidosEntrada :
        /\ CabeOrden(pedido)
        /\ LET loc == crear_orden_completa_leer(DB, mesa_id, pedido)
           IN AtenderP(loc, crear_orden_completa_escribir(DB, loc),
                       "CreateOrder", Len(ordenes) + 1, pedido)

CrearOrdenEntradaApi ==
    \E mesa_id \in Mesas, pedido \in PedidosEntrada :
        /\ CabeOrden(pedido)
        /\ LET loc == api_crear_orden_leer(DB, mesa_id, pedido)
           IN AtenderP(loc, api_crear_orden_escribir(DB, loc),
                       "CreateOrder", Len(ordenes) + 1, pedido)

AgregarEntradaServicio ==
    \E o \in OrdenIds, pedido \in PedidosEntrada :
        /\ CabeItems(pedido)
        /\ LET loc == agregar_productos_a_orden_leer(DB, o, pedido)
           IN AtenderP(loc, agregar_productos_a_orden_escribir(DB, loc),
                       "AddItems", o, pedido)

AgregarEntradaApi ==
    \E o \in OrdenIds, pedido \in PedidosEntrada :
        /\ CabeItems(pedido)
        /\ LET loc == api_agregar_productos_orden_leer(DB, o, pedido)
           IN AtenderSinNotificar(
                  loc, api_agregar_productos_orden_escribir(DB, loc),
                  "AddItems", o, pedido)

NextEntrada ==
    \/ CrearOrdenEntradaServicio
    \/ CrearOrdenEntradaApi
    \/ AgregarEntradaServicio
    \/ AgregarEntradaApi
    \/ MarcarListoServicio
    \/ DecrementarServicio
    \/ EntregarServicio

SpecEntrada == Init /\ [][NextEntrada]_vars

\* ------------------------------------------------------------------------
\* Table occupancy: orders of one line, opened while another order may be
\* open, taken through the kitchen and served
\* ------------------------------------------------------------------------
CabeOtraOrden(pedido) ==
    /\ Len(ordenes) < MaxOrdenesMesas
    /\ CabeItems(pedido)

OtraOrdenServicio ==
    \E mesa_id \in Mesas, pedido \in PedidosConc :
        /\ CabeOtraOrden(pedido)
        /\ LET loc == crear_orden_completa_leer(DB, mesa_id, pedido)
           IN AtenderP(loc, crear_orden_completa_escribir(DB, loc),
                       "CreateOrder", Len(ordenes) + 1, pedido)

OtraOrdenApi ==
    \E mesa_id \in Mesas, pedido \in PedidosConc :
        /\ CabeOtraOrden(pedido)
        /\ LET loc == api_crear_orden_leer(DB, mesa_id, pedido)
           IN AtenderP(loc, api_crear_orden_escribir(DB, loc),
                       "CreateOrder", Len(ordenes) + 1, pedido)

NextMesas ==
    \/ OtraOrdenServicio
    \/ OtraOrdenApi
    \/ MarcarListoServicio
    \/ EntregarServicio
    \/ ServidaApi

SpecMesas == Init /\ [][NextMesas]_vars

\* ------------------------------------------------------------------------
\* Long polling: one client polls the kitchen digest or the stock digest
\* while orders are created, prepared, decremented and served
\* ------------------------------------------------------------------------
\* long_polling_cocina and long_polling_meseros are the same loop over
\* different digests.  One tick of sondeo.transcurrido is one time.sleep of
\* the loop; the callers pass a timeout of 25 seconds, TimeoutSondeo sleeps
\* here.  sondeo.cliente is what the client keeps between polls: the digest
\* of the last response per channel, and (for the properties) the value the
\* channel's notification counter had when that digest was computed;
\* sondeo.avisos_llamada is the counter's value when the poll was called.
Canales == {"cocina", "stock"}
TimeoutSondeo == MaxEsperas

ClaveHash(canal) ==
    IF canal = "cocina" THEN "ultimo_hash_cocina" ELSE "ultimo_hash_stock"

HashActual(db, canal) ==
    IF canal = "cocina" THEN generar_hash_estado_cocina(db)
    ELSE generar_hash_stock(db)

Instantanea(db, canal) ==
    IF canal = "cocina" THEN obtener_todas_ordenes_cocina(db)
    ELSE obtener_stock_productos(db)

SinResultado == [cambios |-> FALSE, hash |-> Ninguno, datos |-> {}]

\* The client calls with the digest of its last response, or with none.
IniciarSondeo ==
    /\ sondeo.fase = "libre"
    /\ \E canal \in Canales :
         \E hash_anterior \in {Ninguno, sondeo.cliente[canal].hash} :
             sondeo' = [sondeo EXCEPT !.fase = "bucle", !.canal = canal,
                                      !.hash_anterior = hash_anterior,
                                      !.transcurrido = 0,
                                      !.resultado = SinResultado,
                                      !.avisos_llamada =
                                          cache_get(cache, ClaveAviso(canal))]
    /\ UNCHANGED <<tablas, senal_conectada, entorno, respuesta, concurrencia,
                   cache, reloj>>

\* One pass of the while loop: compute the digest, return if it differs,
\* sleep otherwise.
Comprobar ==
    /\ sondeo.fase = "bucle"
    /\ sondeo.transcurrido < TimeoutSondeo
    /\ LET canal == sondeo.canal
           hash_actual == HashActual(DB, canal)
       IN IF long_polling_cambio(hash_actual, sondeo.hash_anterior)
          THEN /\ cache' = cache_set(cache, ClaveHash(canal), hash_actual)
               /\ sondeo' =
                    [sondeo EXCEPT
                       !.fase = "libre",
                       !.resultado = [cambios |-> TRUE, hash |-> hash_actual,
                                      datos |-> Instantanea(DB, canal)],
                       !.cliente[canal] =
                           [hash |-> hash_actual,
                            avisos |-> cache_get(cache, ClaveAviso(canal))]]
          ELSE /\ sondeo' = [sondeo EXCEPT !.transcurrido = @ + 1]
               /\ UNCHANGED cache
    /\ UNCHANGED <<tablas, senal_conectada, entorno, respuesta, concurrencia,
                   reloj>>

\* The loop ends on the timeout: no digest is computed any more.
Vencer ==
    /\ sondeo.fase = "bucle"
    /\ sondeo.transcurrido >= TimeoutSondeo
    /\ sondeo' = [sondeo EXCEPT
                    !.fase = "libre",
                    !.resultado = [cambios |-> FALSE,
                                   hash |-> sondeo.hash_anterior,
                                   datos |-> {}]]
    /\ UNCHANGED <<tablas, senal_conectada, entorno, respuesta, concurrencia,
                   cache, reloj>>

\* crear_orden_completa for an order of one line.
OrdenDeUnaLinea ==
    \E mesa_id \in Mesas, pedido \in PedidosConc :
        /\ CabeOrden(pedido)
        /\ LET loc == crear_orden_completa_leer(DB, mesa_id, pedido)
           IN AtenderP(loc, crear_orden_completa_escribir(DB, loc),
                       "CreateOrder", Len(ordenes) + 1, pedido)

InitSondeo ==
    /\ InitTablas
    /\ entorno = "ok"
    /\ peticiones = [p \in Procesos |-> Libre]
    /\ restantes = 0
    /\ carrera = SinCarrera
    /\ cache = CacheVacia
    /\ sondeo = [fase |-> "libre", canal |-> "cocina",
                 hash_anterior |-> Ninguno, transcurrido |-> 0,
                 resultado |-> SinResultado, avisos_llamada |-> 0,
                 cliente |-> [c \in Canales |->
                                [hash |-> Ninguno, avisos |-> 0]]]
    /\ reloj = 1

NextSondeo ==
    \/ OrdenDeUnaLinea
    \/ MarcarListoServicio
    \/ DecrementarServicio
    \/ EntregarServicio
    \/ IniciarSondeo
    \/ Comprobar
    \/ Vencer

SpecSondeo == InitSondeo /\ [][NextSondeo]_vars

\* ------------------------------------------------------------------------
\* The sequential system in an environment that can fail
\* ------------------------------------------------------------------------
\* The environment a deployment runs in stays as it is: the cache backend or
\* the database may be failing from the start.
InitFalla ==
    /\ InitTablas
    /\ InitSecuencial
    /\ entorno \in Entornos

SpecFalla == InitFalla /\ [][Next]_vars

\* ------------------------------------------------------------------------
\* The concurrent system: two workers, READ COMMITTED transactions.
\*
\* A handler under transaction.atomic takes three steps: Recibir (its first
\* queries and validations, against the committed rows), Ejecutar (its
\* remaining queries and its writes, which stay invisible to the other
\* worker and lock the rows they touch) and Confirmar (the commit).  A write
\* to a row the other worker has locked waits for that worker's commit.
\* api_marcar_producto_listo_tiempo_real has no transaction: each of its
\* saves is committed on the spot, and the post_save receiver of its
\* orden.save() runs after that save is committed.
\* ------------------------------------------------------------------------
HandlersConc ==
    {"api_agregar_productos_orden", "marcar_producto_listo",
     "api_marcar_producto_listo_tiempo_real", "decrementar_producto",
     "marcar_orden_como_lista", "entregar_orden", "crear_factura_orden"}

HandlersStock == {"api_agregar_productos_orden", "decrementar_producto"}

Atomica(h) == h # "api_marcar_producto_listo_tiempo_real"

Operacion(h) ==
    CASE h = "api_agregar_productos_orden" -> "AddItems"
      [] h \in {"marcar_producto_listo",
                "api_marcar_producto_listo_tiempo_real"} -> "MarkItemReady"
      [] h = "decrementar_producto" -> "DecrementItem"
      [] h = "marcar_orden_como_lista" -> "ForceComplete"
      [] h = "entregar_orden" -> "ServeOrder"
      [] h = "crear_factura_orden" -> "CreateInvoice"

Leer(h, db, arg, pedido) ==
    CASE h = "api_agregar_productos_orden" ->
            api_agregar_productos_orden_leer(db, arg, pedido)
      [] h = "marcar_producto_listo" -> marcar_producto_listo_leer(db, arg)
      [] h = "api_marcar_producto_listo_tiempo_real" ->
            api_marcar_producto_listo_leer(db, arg)
      [] h = "decrementar_producto" -> decrementar_producto_leer(db, arg)
      [] h = "marcar_orden_como_lista" ->
            marcar_orden_como_lista_leer(db, arg)
      [] h = "entregar_orden" -> entregar_orden_leer(db, arg)
      [] h = "crear_factura_orden" -> crear_factura_orden_leer(db, arg)

Escribir(h, db, loc) ==
    CASE h = "api_agregar_productos_orden" ->
            api_agregar_productos_orden_escribir(db, loc)
      [] h = "marcar_producto_listo" -> marcar_producto_listo_escribir(db, loc)
      [] h = "api_marcar_producto_listo_tiempo_real" ->
            api_marcar_producto_listo_escribir(db, loc)
      [] h = "decrementar_producto" -> decrementar_producto_escribir(db, loc)
      [] h = "marcar_orden_como_lista" ->
            marcar_orden_como_lista_escribir(db, loc)
      [] h = "entregar_orden" -> entregar_orden_escribir(db, loc)
      [] h = "crear_factura_orden" -> crear_factura_orden_escribir(db, loc)

\* The writes of a log, made on the rows as they are now.
EscribirFila(tabla, w) ==
    IF w.id = 0 THEN Append(tabla, w.fila) ELSE [tabla EXCEPT ![w.id] = w.fila]

RECURSIVE Aplicar(_, _, _)
Aplicar(db, log, n) ==
    IF n = 0 THEN db
    ELSE LET d == Aplicar(db, log, n - 1)
             w == log[n]
         IN CASE w.tabla = "productos" ->
                    [d EXCEPT !.productos[w.id] = w.fila]
              [] w.tabla = "mesas" -> [d EXCEPT !.mesas[w.id] = w.fila]
              [] w.tabla = "ordenes" ->
                    [d EXCEPT !.ordenes = EscribirFila(@, w)]
              [] w.tabla = "orden_productos" ->
                    [d EXCEPT !.orden_productos = EscribirFila(@, w)]
              [] w.tabla = "facturas" ->
                    [d EXCEPT !.facturas = EscribirFila(@, w)]

\* The rows a log updates (and so locks until the commit).
Filas(log) ==
    {<<log[n].tabla, log[n].id>> : n \in {m \in 1..Len(log) : log[m].id # 0}}

\* A database that takes no row locks.
Bloqueadas_sin_bloqueo(p) == {}

\* The rows worker p holds locked.
Bloqueadas(p) ==
    IF peticiones[p].fase = "escrito" /\ Atomica(peticiones[p].h)
    THEN Filas(peticiones[p].log) ELSE {}

Otro(p) == CHOOSE q \in Procesos : q # p

EnCurso(p) == peticiones[p].fase # "libre"

\* The requests a worker may be handed.
Solicitudes ==
    [h : {"api_agregar_productos_orden"}, arg : OrdenIds,
     pedido : PedidosConc]
    \cup [h : {"marcar_producto_listo",
               "api_marcar_producto_listo_tiempo_real",
               "decrementar_producto"}, arg : ItemIds, pedido : {<<>>}]
    \cup [h : {"marcar_orden_como_lista", "entregar_orden",
               "crear_factura_orden"},
          arg : OrdenIds, pedido : {<<>>}]

\* Line items the requests in progress may still insert.
ItemsEnCurso ==
    LET n(p) == IF EnCurso(p) THEN Len(peticiones[p].pedido) ELSE 0
    IN n(1) + n(2)

\* CreateOrder, made while no other request is in progress.
PrepararOrden ==
    /\ \A p \in Procesos : ~EnCurso(p)
    /\ restantes > 0
    /\ \E mesa_id \in Mesas, pedido \in PedidosConc :
        /\ CabeOrden(pedido)
        /\ LET loc == crear_orden_completa_leer(DB, mesa_id, pedido)
               db2 == crear_orden_completa_escribir(DB, loc)
           IN /\ loc.error = "" => Acotado(db2)
              /\ respuesta' = [Resp("CreateOrder", Len(ordenes) + 1,
                                    loc.error)
                                 EXCEPT !.excede = PrimeraExcedida(pedido)]
              /\ IF loc.error = "" THEN Persistir(db2) ELSE UNCHANGED tablas
    /\ restantes' = restantes - 1
    /\ carrera' = SinCarrera
    /\ UNCHANGED <<senal_conectada, entorno, tiempo_real, peticiones>>

\* The pair under observation after one of its requests answered.
Terminada(h, error) ==
    IF carrera.activa
    THEN [carrera EXCEPT !.fin = Append(@, [h |-> h, error |-> error])]
    ELSE carrera

\* Worker p is handed a request and runs the handler up to its last
\* validation.  A request that overlaps another one is the second of a pair;
\* no third request starts before both of the pair have ended.  carrera.fin
\* lists the answers of the pair in the order they were given.
Recibir(p) ==
    /\ ~EnCurso(p)
    /\ restantes > 0
    /\ EnCurso(Otro(p)) => ~carrera.activa
    /\ \E sol \in Solicitudes :
        LET loc == Leer(sol.h, DB, sol.arg, sol.pedido)
            q == Otro(p)
            stock == /\ sol.h \in HandlersStock
                     /\ peticiones[q].h \in HandlersStock
        IN /\ Len(orden_productos) + ItemsEnCurso + Len(sol.pedido)
                <= MaxItemsConc
           /\ IF loc.error # ""
              THEN /\ respuesta' = [Resp(Operacion(sol.h), sol.arg, loc.error)
                                      EXCEPT !.excede =
                                                PrimeraExcedida(sol.pedido)]
                   /\ carrera' =
                        IF ~EnCurso(q) THEN carrera
                        ELSE [activa |-> TRUE, stock |-> stock,
                              db0 |-> DB,
                              r1 |-> [h |-> peticiones[q].h,
                                      arg |-> peticiones[q].arg,
                                      pedido |-> peticiones[q].pedido],
                              r2 |-> sol,
                              fin |-> <<[h |-> sol.h,
                                         error |-> loc.error]>>]
                   /\ UNCHANGED peticiones
              ELSE /\ peticiones' =
                        [peticiones EXCEPT ![p] =
                            [fase |-> "leido", h |-> sol.h, arg |-> sol.arg,
                             pedido |-> sol.pedido, loc |-> loc,
                             log |-> <<>>, error |-> ""]]
                   /\ carrera' =
                        IF ~EnCurso(q) THEN SinCarrera
                        ELSE [activa |-> TRUE, stock |-> stock,
                              db0 |-> DB,
                              r1 |-> [h |-> peticiones[q].h,
                                      arg |-> peticiones[q].arg,
                                      pedido |-> peticiones[q].pedido],
                              r2 |-> sol, fin |-> <<>>]
                   /\ UNCHANGED respuesta
    /\ restantes' = restantes - 1
    /\ UNCHANGED <<tablas, senal_conectada, entorno, tiempo_real>>

\* The rest of an atomic handler: its remaining queries see the committed
\* rows, its writes are kept until the commit.
Ejecutar(p) ==
    /\ peticiones[p].fase = "leido"
    /\ Atomica(peticiones[p].h)
    /\ LET r == peticiones[p]
           db2 == Escribir(r.h, DB, r.loc)
       IN /\ Filas(db2.log) \cap Bloqueadas(Otro(p)) = {}
          /\ Acotado(db2)
          /\ peticiones' = [peticiones EXCEPT ![p].fase = "escrito",
                                              ![p].log = db2.log,
                                              ![p].error = db2.error]
    /\ UNCHANGED <<tablas, senal_conectada, entorno, tiempo_real, respuesta,
                   restantes, carrera>>

\* The commit of an atomic handler, or the write the post_save receiver of
\* a handler without transaction still had to make; then the response.
Confirmar(p) ==
    /\ peticiones[p].fase = "escrito"
    /\ LET r == peticiones[p]
       IN /\ Atomica(r.h) \/ Filas(r.log) \cap Bloqueadas(Otro(p)) = {}
          /\ Persistir(Aplicar(DB, r.log, Len(r.log)))
          /\ respuesta' = Resp(Operacion(r.h), r.arg, r.error)
    /\ peticiones' = [peticiones EXCEPT ![p] = Libre]
    /\ carrera' = Terminada(peticiones[p].h, peticiones[p].error)
    /\ UNCHANGED <<senal_conectada, entorno, tiempo_real, restantes>>

\* api_marcar_producto_listo_tiempo_real: producto_orden.save().
GuardarItem(p) ==
    /\ peticiones[p].fase = "leido"
    /\ ~Atomica(peticiones[p].h)
    /\ LET db1 == MarcarItem(DB, peticiones[p].loc)
       IN /\ Filas(db1.log) \cap Bloqueadas(Otro(p)) = {}
          /\ Persistir(db1)
    /\ peticiones' = [peticiones EXCEPT ![p].fase = "guardado"]
    /\ UNCHANGED <<senal_conectada, entorno, tiempo_real, respuesta,
                   restantes, carrera>>

\* api_marcar_producto_listo_tiempo_real: the count of PENDIENTE items and
\* orden.save(), committed on the spot; the receiver has looked the invoice
\* up, its write is still to come.
CerrarOrden(p) ==
    /\ peticiones[p].fase = "guardado"
    /\ LET r == peticiones[p]
           db2 == CerrarSiCompleta(DB, r.loc)
           propias == SelectSeq(db2.log, LAMBDA w : ~w.senal)
           receptor == SelectSeq(db2.log, LAMBDA w : w.senal)
       IN /\ Filas(propias) \cap Bloqueadas(Otro(p)) = {}
          /\ Acotado(db2)
          /\ Persistir(Aplicar(DB, propias, Len(propias)))
          /\ IF receptor = <<>>
             THEN /\ peticiones' = [peticiones EXCEPT ![p] = Libre]
                  /\ respuesta' = Resp(Operacion(r.h), r.arg, "")
                  /\ carrera' = Terminada(r.h, "")
             ELSE /\ peticiones' = [peticiones EXCEPT ![p].fase = "escrito",
                                                      ![p].log = receptor]
                  /\ UNCHANGED <<respuesta, carrera>>
    /\ UNCHANGED <<senal_conectada, entorno, tiempo_real, restantes>>

InitConc ==
    /\ InitTablas
    /\ entorno = "ok"
    /\ peticiones = [p \in Procesos |-> Libre]
    /\ restantes = MaxPeticiones
    /\ carrera = SinCarrera
    /\ SinTiempoReal

NextConc ==
    \/ PrepararOrden
    \/ \E p \in Procesos : Recibir(p)
    \/ \E p \in Procesos : Ejecutar(p)
    \/ \E p \in Procesos : Confirmar(p)
    \/ \E p \in Procesos : GuardarItem(p)
    \/ \E p \in Procesos : CerrarOrden(p)

SpecConc == InitConc /\ [][NextConc]_vars

\* ------------------------------------------------------------------------
\* Taking a line item out of an order: the requests that return units of a
\* PENDIENTE item to the stock, sent for as long as they are accepted
\* ------------------------------------------------------------------------
\* No handler deletes an OrdenProducto or an Orden, and none sets an item's
\* cantidad other than by producto_orden.cantidad -= 1: the decrement is the
\* only request that takes units out of an order.
NextRetiro ==
    \/ CrearOrdenServicio
    \/ DecrementarServicio
    \/ DecrementarApi

SpecRetiro ==
    /\ Init
    /\ [][NextRetiro]_vars
    /\ WF_vars(DecrementarServicio)
    /\ WF_vars(DecrementarApi)

\* ------------------------------------------------------------------------
\* The notifiers called by two workers at the same time
\* ------------------------------------------------------------------------
\* A handler's last act is notificar_cambio_cocina() or
\* notificar_cambio_stock(): a cache.get and a cache.set, two round trips to
\* the cache with nothing that holds the entry between them.
\* peticiones[p].contador is the local variable of worker p's call.
LlamarNotificador(p) ==
    /\ restantes > 0
    /\ peticiones[p].fase = "libre"
    /\ \E canal \in Canales :
         peticiones' = [peticiones EXCEPT
                          ![p] = [fase |-> "leer", canal |-> canal]]
    /\ restantes' = restantes - 1
    /\ UNCHANGED <<tablas, senal_conectada, entorno, respuesta, carrera,
                   tiempo_real>>

LeerContador(p) ==
    /\ peticiones[p].fase = "leer"
    /\ peticiones' =
         [peticiones EXCEPT
            ![p] = [fase |-> "escribir", canal |-> peticiones[p].canal,
                    contador |-> notificar_cambio_leer(cache,
                                                       peticiones[p].canal)]]
    /\ UNCHANGED <<tablas, senal_conectada, entorno, respuesta, restantes,
                   carrera, tiempo_real>>

EscribirContador(p) ==
    /\ peticiones[p].fase = "escribir"
    /\ cache' = notificar_cambio_escribir(cache, peticiones[p].canal,
                                          peticiones[p].contador)
    /\ peticiones' = [peticiones EXCEPT ![p] = Libre]
    /\ UNCHANGED <<tablas, senal_conectada, entorno, respuesta, restantes,
                   carrera, sondeo, reloj>>

InitAvisos ==
    /\ InitTablas
    /\ entorno = "ok"
    /\ peticiones = [p \in Procesos |-> Libre]
    /\ restantes = MaxAvisos
    /\ carrera = SinCarrera
    /\ cache = CacheVacia
    /\ sondeo = SinSondeo
    /\ reloj = 1

NextAvisos ==
    \/ \E p \in Procesos : LlamarNotificador(p)
    \/ \E p \in Procesos : LeerContador(p)
    \/ \E p \in Procesos : EscribirContador(p)

SpecAvisos == InitAvisos /\ [][NextAvisos]_vars

\* ------------------------------------------------------------------------
\* core/decorators.py: debounce_request on one view, one debounce key
\* ------------------------------------------------------------------------
\* Times are counted in ticks of Tick hundredths of a second; the requests
\* all come from one user for one view with one payload, so that
\* generate_debounce_key gives them the same key, the cache entry
\* cache.debounce.
DEFAULT_DELAY == 50
debounce_delay == DEFAULT_DELAY \div Tick

\* if last_request_time: ... if time_since_last < debounce_delay
debounce_bloquea(last_request_time, current_time) ==
    /\ last_request_time # Ausente
    /\ last_request_time # 0
    /\ current_time - last_request_time < debounce_delay

\* round(x, 1) of a time x given in hundredths of a second: the nearest
\* tenth, the even one of two that are equally near.
round_1(x) ==
    LET d == x \div 10
        r == x % 10
    IN IF r < 5 THEN 10 * d
       ELSE IF r > 5 THEN 10 * (d + 1)
       ELSE IF d % 2 = 0 THEN 10 * d ELSE 10 * (d + 1)

\* remaining_time = debounce_delay - time_since_last, in hundredths
remaining_time(last_request_time, current_time) ==
    DEFAULT_DELAY - (current_time - last_request_time) * Tick

RespDebounce(p, error, retry_after) ==
    [retry_after |-> retry_after] @@ Resp("Guarded", p, error)

\* The observation kept for the properties: admitida is the time of the
\* latest admission since which no guarded action has failed.
\* borrado is the time held by the record that the latest failure removed.
SinAdmision == [activa |-> FALSE, admitida |-> Ausente, borrado |-> Ausente]

\* cache.delete(debounce_key)
cache_delete_sin_borrar(c, clave) == c
cache_delete(c, clave) == cache_set(c, clave, Ausente)

\* last_request_time = cache.get(debounce_key); current_time = time.time()
Llegar(p) ==
    /\ restantes > 0
    /\ peticiones[p].fase = "libre"
    /\ peticiones' = [peticiones EXCEPT
                        ![p] = [fase |-> "guardia",
                                last_request_time |->
                                    cache_get(cache, "debounce"),
                                current_time |-> reloj]]
    /\ restantes' = restantes - 1
    /\ UNCHANGED <<tablas, senal_conectada, entorno, respuesta, carrera,
                   tiempo_real>>

\* The test of the entry read, and either the 429 response or cache.set
\* and the call of the view.
Decidir(p) ==
    /\ peticiones[p].fase = "guardia"
    /\ LET last_request_time == peticiones[p].last_request_time
           current_time == peticiones[p].current_time
       IN IF debounce_bloquea(last_request_time, current_time)
          THEN /\ respuesta' =
                    RespDebounce(p, "TooSoon",
                                 round_1(remaining_time(last_request_time,
                                                        current_time)))
               /\ peticiones' = [peticiones EXCEPT ![p] = Libre]
               /\ UNCHANGED <<cache, carrera>>
          ELSE /\ cache' = cache_set(cache, "debounce", current_time)
               /\ peticiones' = [peticiones EXCEPT
                                   ![p] = [fase |-> "vista",
                                           current_time |-> current_time]]
               /\ carrera' = [carrera EXCEPT !.admitida = current_time]
               /\ UNCHANGED respuesta
    /\ UNCHANGED <<tablas, senal_conectada, entorno, restantes, sondeo,
                   reloj>>

\* The view returns its response.
VistaResponde(p) ==
    /\ peticiones[p].fase = "vista"
    /\ respuesta' = RespDebounce(p, "", 0)
    /\ peticiones' = [peticiones EXCEPT ![p] = Libre]
    /\ UNCHANGED <<tablas, senal_conectada, entorno, restantes, carrera,
                   tiempo_real>>

\* The view raises: cache.delete(debounce_key); raise e
VistaFalla(p) ==
    /\ peticiones[p].fase = "vista"
    /\ cache' = cache_delete(cache, "debounce")
    /\ respuesta' = RespDebounce(p, "Error", 0)
    /\ peticiones' = [peticiones EXCEPT ![p] = Libre]
    /\ carrera' = [carrera EXCEPT !.admitida = Ausente,
                                  !.borrado = cache_get(cache, "debounce")]
    /\ UNCHANGED <<tablas, senal_conectada, entorno, restantes, sondeo,
                   reloj>>

\* Time passes.
Tic ==
    /\ reloj < MaxReloj
    /\ reloj' = reloj + 1
    /\ UNCHANGED <<tablas, senal_conectada, entorno, respuesta, concurrencia,
                   cache, sondeo>>

InitDebounce ==
    /\ InitTablas
    /\ entorno = "ok"
    /\ peticiones = [p \in Procesos |-> Libre]
    /\ restantes = MaxInvocaciones
    /\ carrera = SinAdmision
    /\ cache = CacheVacia
    /\ sondeo = SinSondeo
    /\ reloj = 1

NextDebounce ==
    \/ \E p \in Procesos : Llegar(p)
    \/ \E p \in Procesos : Decidir(p)
    \/ \E p \in Procesos : VistaResponde(p)
    \/ \E p \in Procesos : VistaFalla(p)
    \/ Tic

SpecDebounce == InitDebounce /\ [][NextDebounce]_vars

\* ------------------------------------------------------------------------
\* Properties
\* ------------------------------------------------------------------------
\* C1: the stock of a product is never negative, whatever sequence of
\* CreateOrder, AddItems, DecrementItem, MarkItemReady, ServeOrder, PayInvoice
\* and RefundInvoice requests ran, a request may name a product on several
\* lines.
C1_StockNoNegativo ==
    \A p \in Productos : productos[p].cantidad >= 0

\* C2: an order becomes SERVED only when, in the committed state it becomes
\* SERVED in, none of its line items is PENDING, however the ServeOrder
\* request interleaves with AddItems, MarkItemReady and force-complete.
C2_ServidaSinPendientes ==
    [][\A o \in 1..Len(ordenes) :
          (ordenes[o].estado # "SERVIDA" /\ ordenes'[o].estado = "SERVIDA")
          => ItemsPendientes(DB', o) = {}]_vars

\* C3 (state part): no order has more than one invoice.
UnaFacturaPorOrden(db) ==
    \A o \in 1..Len(db.ordenes) : Cardinality(FacturasDeOrden(db, o)) <= 1

\* C3: every order has at most one invoice, and a ServeOrder that succeeds on
\* an order that already holds an invoice creates no invoice and leaves that
\* invoice with subtotal and total equal to the total of the order.
C3_FacturaUnicaYActualizada ==
    [][/\ UnaFacturaPorOrden(DB')
       /\ (/\ respuesta'.op = "ServeOrder"
           /\ respuesta'.ok
           /\ FacturasDeOrden(DB, respuesta'.id) # {})
          => /\ Len(facturas') = Len(facturas)
             /\ \A f \in FacturasDeOrden(DB', respuesta'.id) :
                   /\ facturas'[f].subtotal
                        = calcular_total_orden(DB', respuesta'.id)
                   /\ facturas'[f].total
                        = calcular_total_orden(DB', respuesta'.id)]_vars

\* Two overlapping requests for the same order that had no invoice when the
\* second one arrived, both of them ServeOrder or one of them ServeOrder and
\* the other the explicit creation of the invoice, have both ended.
CarreraDeFacturas ==
    /\ carrera.activa
    /\ \A p \in Procesos : ~EnCurso(p)
    /\ {carrera.r1.h, carrera.r2.h}
          \in {{"entregar_orden"}, {"entregar_orden", "crear_factura_orden"}}
    /\ carrera.r1.arg = carrera.r2.arg
    /\ FacturasDeOrden(carrera.db0, carrera.r1.arg) = {}

\* C4: when two overlapping invoice-creating requests for an order without
\* invoice (two ServeOrder, or a ServeOrder and an explicit invoice creation)
\* have both ended, the order has exactly one invoice.
C4_UnaFacturaTrasCarrera ==
    CarreraDeFacturas
    => Cardinality(FacturasDeOrden(DB, carrera.r1.arg)) = 1

\* C4 happens: two overlapping ServeOrder requests for an order without
\* invoice have both ended and the order is SERVED.
C4_Testigo ==
    /\ CarreraDeFacturas
    /\ carrera.r1.h = "entregar_orden"
    /\ carrera.r2.h = "entregar_orden"
    /\ ordenes[carrera.r1.arg].estado = "SERVIDA"

\* C5: once an invoice is PAID, no request other than RefundInvoice changes
\* its subtotal, its total or its payment state: neither AddItems nor a later
\* ServeOrder modifies it or sets it back to UNPAID.
C5_FacturaPagadaInmutable ==
    [][\A f \in 1..Len(facturas) :
          (facturas[f].estado_pago = "PAGADA"
           /\ respuesta'.op # "RefundInvoice")
          => /\ facturas'[f].subtotal = facturas[f].subtotal
             /\ facturas'[f].total = facturas[f].total
             /\ facturas'[f].estado_pago = facturas[f].estado_pago]_vars

\* Units of product p on the lines of the orders whose invoice, if there is
\* one, is not REFUNDED.
RECURSIVE UnidadesPedidas(_, _)
UnidadesPedidas(p, n) ==
    IF n = 0 THEN 0
    ELSE UnidadesPedidas(p, n - 1)
         + (IF /\ orden_productos[n].producto = p
               /\ \A f \in FacturasDeOrden(DB, orden_productos[n].orden) :
                     facturas[f].estado_pago # "REEMBOLSADA"
            THEN orden_productos[n].cantidad ELSE 0)

\* C6: with no request in progress, the stock of each product plus the units
\* of it on the lines of the orders whose invoice is not REFUNDED equals the
\* stock the product started with.
C6_InventarioConservado ==
    \A p \in Productos :
        productos[p].cantidad + UnidadesPedidas(p, Len(orden_productos))
            = StockInicial

\* A request run alone, from its first query to its commit.
Serie(db, r) ==
    LET loc == Leer(r.h, db, r.arg, r.pedido)
    IN IF loc.error # "" THEN db ELSE Escribir(r.h, db, loc)

\* C7: when two overlapping stock-changing requests have both ended, the
\* stock of every product is what one of the two serial orders of the same
\* two requests would have left.
C7_SinActualizacionPerdida ==
    (/\ carrera.activa
     /\ carrera.stock
     /\ \A p \in Procesos : ~EnCurso(p))
    => \/ productos = Serie(Serie(carrera.db0, carrera.r1),
                            carrera.r2).productos
       \/ productos = Serie(Serie(carrera.db0, carrera.r2),
                            carrera.r1).productos

\* C8: a CreateOrder or AddItems request in which some item asks for more
\* than the current stock of its product is rejected with InsufficientStock
\* and changes no product, table, order, line item or invoice.
C8_RechazoConStockInsuficiente ==
    [][(respuesta'.op \in {"CreateOrder", "AddItems"}
        /\ respuesta'.excede > 0)
       => /\ respuesta'.error = "InsufficientStock"
          /\ UNCHANGED tablas]_vars

\* C10: MarkItemReady on a line item that is already READY fails with
\* AlreadyReady and changes nothing.
C10_YaListoSinCambio ==
    [][(respuesta'.op = "MarkItemReady"
        /\ orden_productos[respuesta'.id].estado = "LISTO")
       => /\ respuesta'.error = "AlreadyReady"
          /\ UNCHANGED tablas]_vars

\* C10 happens: MarkItemReady was answered AlreadyReady for a READY item of
\* an order that is still open.
C10_Testigo ==
    /\ respuesta.op = "MarkItemReady"
    /\ respuesta.error = "AlreadyReady"
    /\ orden_productos[respuesta.id].estado = "LISTO"
    /\ ordenes[orden_productos[respuesta.id].orden].estado
          \in ESTADOS_ORDEN_ACTIVA

\* C9: when a CreateOrder, AddItems, DecrementItem or ServeOrder request
\* fails, also after it has made writes, the committed products, tables,
\* orders, line items and invoices are those of before the request.
C9_FalloRevierteTodo ==
    [][(respuesta'.op \in {"CreateOrder", "AddItems", "DecrementItem",
                            "ServeOrder"}
        /\ ~respuesta'.ok)
       => UNCHANGED tablas]_vars

\* Overlapping MarkItemReady requests on the same item, both answered.  The
\* first of the pair passed validation, so the item was PENDIENTE then.
HandlersListo == {"marcar_producto_listo",
                  "api_marcar_producto_listo_tiempo_real"}

CarreraDeListo ==
    /\ carrera.activa
    /\ \A p \in Procesos : ~EnCurso(p)
    /\ carrera.r1.h \in HandlersListo
    /\ carrera.r2.h \in HandlersListo
    /\ carrera.r1.arg = carrera.r2.arg

\* C11: of two MarkItemReady requests that overlap on the same PENDIENTE
\* item exactly one succeeds and the other is rejected with AlreadyReady.
C11_UnSoloListo ==
    CarreraDeListo
    => /\ Len(carrera.fin) = 2
       /\ {carrera.fin[1].error, carrera.fin[2].error} = {"", "AlreadyReady"}

\* C12: once the MarkItemReady requests have been answered, the order of an
\* item that was marked, if none of its items is PENDIENTE, is not left NUEVA
\* or EN_PROCESO and carries its ready timestamp; also when two requests on
\* different items of the order overlap.
C12_OrdenListaTrasUltimoItem ==
    (/\ \A p \in Procesos : ~EnCurso(p)
     /\ respuesta.op = "MarkItemReady"
     /\ respuesta.ok)
    => LET o == orden_productos[respuesta.id].orden
       IN ItemsPendientes(DB, o) = {}
          => /\ ordenes[o].estado \notin {"NUEVA", "EN_PROCESO"}
             /\ ordenes[o].listo_en > 0

\* C13: every ServeOrder that succeeds leaves the order SERVIDA with an
\* invoice; when the order had none, the invoice is NO_PAGADA with subtotal
\* and total equal to the sum of cantidad * precio_unitario of its items.
C13_ServidaConFactura ==
    [][(/\ respuesta'.op = "ServeOrder"
        /\ respuesta'.ok)
       => LET o == respuesta'.id
          IN /\ ordenes'[o].estado = "SERVIDA"
             /\ FacturasDeOrden(DB', o) # {}
             /\ FacturasDeOrden(DB, o) = {}
                  => \A f \in FacturasDeOrden(DB', o) :
                        /\ facturas'[f].estado_pago = "NO_PAGADA"
                        /\ facturas'[f].subtotal = calcular_total_orden(DB', o)
                        /\ facturas'[f].total = calcular_total_orden(DB', o)]_vars

\* The order the answered request was about.
OrdenDeRespuesta(r) ==
    IF r.op \in {"MarkItemReady", "DecrementItem"}
    THEN orden_productos[r.id].orden
    ELSE r.id

C15_AgregarConFacturaPagada ==
    [][(/\ respuesta'.op = "AddItems"
        /\ \E f \in FacturasDeOrden(DB, respuesta'.id) :
              facturas[f].estado_pago = "PAGADA")
       => /\ ~respuesta'.ok
          /\ UNCHANGED tablas]_vars

\* C16: an AddItems that succeeds on an order whose invoice is NO_PAGADA or
\* PARCIAL raises the subtotal and the total of the invoice by exactly the
\* sum of the added items and leaves its payment state as it was.
C16_AgregarSubeFactura ==
    [][(/\ respuesta'.op = "AddItems"
        /\ respuesta'.ok)
       => LET o == respuesta'.id
              agregado == calcular_total_orden(DB', o)
                            - calcular_total_orden(DB, o)
          IN \A f \in FacturasDeOrden(DB, o) :
                facturas[f].estado_pago \in EstadosPagoPendiente
                => /\ facturas'[f].subtotal = facturas[f].subtotal + agregado
                   /\ facturas'[f].total = facturas[f].total + agregado
                   /\ facturas'[f].estado_pago = facturas[f].estado_pago]_vars

\* C17: PayInvoice on an invoice that is already PAGADA or REEMBOLSADA is
\* rejected and changes nothing.
C17_PagoRepetidoRechazado ==
    [][(/\ respuesta'.op = "PayInvoice"
        /\ facturas[respuesta'.id].estado_pago \in {"PAGADA", "REEMBOLSADA"})
       => /\ ~respuesta'.ok
          /\ UNCHANGED tablas]_vars

\* C18: a PayInvoice accepted on a NO_PAGADA or PARCIAL invoice makes it
\* PAGADA, stamps the payment and frees the table unless it is a virtual one
\* exactly when the amount reaches the total; a smaller amount makes it
\* PARCIAL, with no payment stamp and the table as it was.
C18_PagoSegunMonto ==
    [][(/\ respuesta'.op = "PayInvoice"
        /\ respuesta'.ok
        /\ facturas[respuesta'.id].estado_pago \in EstadosPagoPendiente)
       => LET f == respuesta'.id
              mesa_id == ordenes[facturas[f].orden].mesa
          IN IF respuesta'.monto >= facturas[f].total
             THEN /\ facturas'[f].estado_pago = "PAGADA"
                  /\ facturas'[f].pagado_en = Ahora(facturas[f].pagado_en)
                  /\ mesas'[mesa_id] =
                        IF mesa_id \in MesasVirtuales THEN mesas[mesa_id]
                        ELSE [mesas[mesa_id] EXCEPT !.estado = "LIBRE"]
             ELSE /\ facturas'[f].estado_pago = "PARCIAL"
                  /\ facturas'[f].pagado_en = facturas[f].pagado_en
                  /\ mesas' = mesas]_vars

\* C19: PayInvoice with an amount of zero or less on an invoice that can
\* still be paid is rejected with InvalidAmount and leaves the invoice and
\* the table as they were.
C19_MontoInvalidoRechazado ==
    [][(/\ respuesta'.op = "PayInvoice"
        /\ respuesta'.monto <= 0
        /\ facturas[respuesta'.id].estado_pago \in EstadosPagoPendiente)
       => /\ respuesta'.error = "InvalidAmount"
          /\ UNCHANGED tablas]_vars

\* C20: RefundInvoice is accepted only on a PAGADA invoice and for an amount
\* that does not exceed its total (no amount: the full total); on any other
\* invoice, or for a larger amount, it is rejected and the invoice and the
\* stock of the products stay as they were.
C20_ReembolsoSoloPagada ==
    [][respuesta'.op = "RefundInvoice"
       => LET f == respuesta'.id
          IN /\ respuesta'.ok
                  => /\ facturas[f].estado_pago = "PAGADA"
                     /\ respuesta'.monto <= facturas[f].total
             /\ facturas[f].estado_pago # "PAGADA"
                  => /\ respuesta'.error = "NotPaid"
                     /\ facturas' = facturas
                     /\ productos' = productos
             /\ respuesta'.monto > facturas[f].total
                  => /\ ~respuesta'.ok
                     /\ facturas' = facturas
                     /\ productos' = productos]_vars

\* C20 witness: a refund above the total of a PAGADA invoice was rejected.
C20_Testigo ==
    /\ respuesta.op = "RefundInvoice"
    /\ respuesta.error = "AmountExceedsTotal"
    /\ facturas[respuesta.id].estado_pago = "PAGADA"
    /\ respuesta.monto > facturas[respuesta.id].total

\* Units of product p on the lines of order orden_id.
RECURSIVE UnidadesDeOrden(_, _, _, _)
UnidadesDeOrden(items, orden_id, p, n) ==
    IF n = 0 THEN 0
    ELSE UnidadesDeOrden(items, orden_id, p, n - 1)
         + (IF items[n].orden = orden_id /\ items[n].producto = p
            THEN items[n].cantidad ELSE 0)

\* C21: a RefundInvoice that succeeds leaves the invoice REEMBOLSADA and adds
\* to the stock of each product the quantities of the lines of the invoice's
\* order that carry it, whatever the amount; no other stock changes.
C21_ReembolsoDevuelveTodo ==
    [][(/\ respuesta'.op = "RefundInvoice"
        /\ respuesta'.ok)
       => LET f == respuesta'.id
              o == facturas[f].orden
          IN /\ facturas'[f].estado_pago = "REEMBOLSADA"
             /\ \A p \in Productos :
                   productos'[p].cantidad =
                      productos[p].cantidad
                      + UnidadesDeOrden(orden_productos, o, p,
                                        Len(orden_productos))
             /\ orden_productos' = orden_productos]_vars

\* C21 witness: a refund of less than the total went through on an order
\* with two lines.
C21_Testigo ==
    /\ respuesta.op = "RefundInvoice"
    /\ respuesta.ok
    /\ respuesta.monto > 0
    /\ respuesta.monto < facturas[respuesta.id].total
    /\ facturas[respuesta.id].estado_pago = "REEMBOLSADA"
    /\ Len(orden_productos) = 2

\* C22: REEMBOLSADA is final: once an invoice is REEMBOLSADA no request
\* changes its payment state again.
C22_ReembolsadaTerminal ==
    [][\A f \in FacturaIds :
         facturas[f].estado_pago = "REEMBOLSADA"
         => facturas'[f].estado_pago = "REEMBOLSADA"]_vars

\* C23: a DecrementItem that succeeds found the item PENDIENTE with more
\* than one unit; it takes exactly one unit off the item, adds exactly one
\* to the stock of its product, leaves the item PENDIENTE and changes no
\* other line item, no other product and no order.
C23_DecrementoExacto ==
    [][(/\ respuesta'.op = "DecrementItem"
        /\ respuesta'.ok)
       => LET i == respuesta'.id
              po == orden_productos[i]
          IN /\ po.estado = "PENDIENTE"
             /\ po.cantidad > 1
             /\ orden_productos' =
                   [orden_productos EXCEPT ![i].cantidad = @ - 1]
             /\ productos' =
                   [productos EXCEPT ![po.producto].cantidad = @ + 1]
             /\ ordenes' = ordenes]_vars

\* C23 witness: a decrement went through on an order with a second line.
C23_Testigo ==
    /\ respuesta.op = "DecrementItem"
    /\ respuesta.ok
    /\ Len(orden_productos) = 2
    /\ orden_productos[respuesta.id].estado = "PENDIENTE"

C25_MesaVirtualNuncaOcupada ==
    \A m \in Mesas \cap MesasVirtuales : mesas[m].estado # "OCUPADA"

\* C26: a CreateOrder that succeeds on a physical table found it LIBRE and
\* leaves it OCUPADA, so that one on a physical table that is not LIBRE is
\* rejected; a rejected CreateOrder creates no order and reserves no stock.
C26_MesaOcupadaRechaza ==
    [][respuesta'.op = "CreateOrder"
       => IF respuesta'.ok
          THEN LET m == ordenes'[respuesta'.id].mesa
               IN m \notin MesasVirtuales
                  => /\ mesas[m].estado = "LIBRE"
                     /\ mesas'[m].estado = "OCUPADA"
          ELSE UNCHANGED tablas]_vars

\* C27: a long poll (PollKitchen, PollStock) returns changed = true with the
\* current digest and the snapshot as soon as a digest it computes differs
\* from the digest the client supplied, which is always the case on the first
\* check when the client supplied none; while the digests are equal it keeps
\* re-checking, and once the timeout has passed it returns changed = false
\* carrying exactly the supplied digest.
C27_SondeoDevuelve ==
    [][(sondeo.fase = "bucle" /\ sondeo' # sondeo) =>
          LET hash_actual == HashActual(DB, sondeo.canal)
              difiere == \/ ~sondeo.hash_anterior.dado
                         \/ hash_actual.valor # sondeo.hash_anterior.valor
          IN IF sondeo.transcurrido >= TimeoutSondeo
             THEN /\ sondeo'.fase = "libre"
                  /\ ~sondeo'.resultado.cambios
                  /\ sondeo'.resultado.hash = sondeo.hash_anterior
             ELSE IF difiere
             THEN /\ sondeo'.fase = "libre"
                  /\ sondeo'.resultado.cambios
                  /\ sondeo'.resultado.hash = hash_actual
                  /\ sondeo'.resultado.datos = Instantanea(DB, sondeo.canal)
             ELSE /\ sondeo'.fase = "bucle"
                  /\ sondeo'.transcurrido = sondeo.transcurrido + 1]_vars

\* C27 witness: a poll called with a digest returned changed = true after
\* having slept on an equal digest.
C27_Testigo ==
    /\ sondeo.fase = "libre"
    /\ sondeo.resultado.cambios
    /\ sondeo.hash_anterior.dado
    /\ sondeo.transcurrido > 0

\* C28: no change is missed.  When a mutating operation has committed (and
\* signalled the channel's notification counter) after the client obtained
\* its digest d, the client's next poll of that channel, called with d after
\* that commit, returns changed = true; it does not time out, whatever the
\* digested fields have become since.
C28_NingunCambioPerdido ==
    [][(/\ sondeo.fase = "bucle"
        /\ sondeo'.fase = "libre"
        /\ sondeo.hash_anterior.dado
        /\ sondeo.avisos_llamada # sondeo.cliente[sondeo.canal].avisos)
       => sondeo'.resultado.cambios]_vars

\* C29: the notification counters only grow: every notify call raises its
\* channel's counter by exactly one, also when two notify calls run at the
\* same time, so that n notifications leave the counter n higher.
C29_ContadorSubeDeUnoEnUno ==
    [][\A canal \in Canales :
          LET antes == cache_get(cache, ClaveAviso(canal))
              despues == cache_get(cache', ClaveAviso(canal))
              termina == \E p \in Procesos :
                            /\ peticiones[p].fase = "escribir"
                            /\ peticiones[p].canal = canal
                            /\ peticiones'[p].fase = "libre"
          IN /\ despues >= antes
             /\ termina => despues = antes + 1]_vars

\* C30: for one guard key, after an invocation was admitted at time t (and
\* while no guarded action has failed since), every invocation with that key
\* arriving at t or later and before t + cooldown is rejected as too soon and
\* its guarded action is not executed; an invocation arriving at or after
\* t + cooldown is admitted.
C30_VentanaDeEspera ==
    [][\A p \in Procesos :
          (/\ peticiones[p].fase = "guardia"
           /\ peticiones'[p].fase # "guardia"
           /\ carrera.admitida # Ausente)
          => LET ahora == peticiones[p].current_time
                 t == carrera.admitida
             IN /\ (t <= ahora /\ ahora < t + debounce_delay)
                      => /\ peticiones'[p].fase = "libre"
                         /\ respuesta'.op = "Guarded"
                         /\ respuesta'.id = p
                         /\ respuesta'.error = "TooSoon"
                         /\ cache' = cache
                /\ ahora >= t + debounce_delay
                      => /\ peticiones'[p].fase = "vista"
                         /\ cache_get(cache', "debounce") = ahora]_vars

\* C31: when the guarded action of an admitted invocation ends with an
\* unhandled failure, the guard's record for the key is removed, and the
\* next invocation with that key finds no record and is admitted at once,
\* also inside what would have been the cooldown window.
C31_FalloBorraElRegistro ==
    [][\A p \in Procesos :
          /\ (/\ peticiones[p].fase = "vista"
              /\ peticiones'[p].fase = "libre"
              /\ respuesta'.error = "Error")
             => cache_get(cache', "debounce") = Ausente
          /\ (/\ peticiones[p].fase = "libre"
              /\ peticiones'[p].fase = "guardia"
              /\ carrera.borrado # Ausente
              /\ carrera.admitida = Ausente)
             => peticiones'[p].last_request_time = Ausente
          /\ (/\ peticiones[p].fase = "guardia"
              /\ peticiones'[p].fase # "guardia"
              /\ peticiones[p].last_request_time = Ausente)
             => /\ peticiones'[p].fase = "vista"
                /\ cache_get(cache', "debounce")
                     = peticiones[p].current_time]_vars

\* C31 witness: after a failure removed a record, an invocation that arrived
\* inside the removed record's cooldown window is inside the view.
C31_Testigo ==
    \E p \in Procesos :
        /\ peticiones[p].fase = "vista"
        /\ carrera.borrado # Ausente
        /\ carrera.admitida = peticiones[p].current_time
        /\ peticiones[p].current_time < carrera.borrado + debounce_delay

\* C40: of two invocations with the same guard key that arrive at the same
\* time at most one executes the guarded action: as long as no guarded
\* action has failed, two invocations are never both inside the view unless
\* they arrived at least a cooldown apart.
C40_UnaSolaEnLaVista ==
    carrera.borrado = Ausente
    => \A p, q \in Procesos :
          (/\ p # q
           /\ peticiones[p].fase = "vista"
           /\ peticiones[q].fase = "vista"
           /\ peticiones[p].current_time <= peticiones[q].current_time)
          => peticiones[q].current_time
               >= peticiones[p].current_time + debounce_delay

\* C32: an order created with one line item on a free physical table, whose
\* item is then taken out completely while PENDING (the decrements down to
\* quantity 1, then the removal of the last unit), leads to the state in
\* which the product's quantity is what it was before the order, the order
\* is deleted and its table is FREE.
C32_IdaYVuelta ==
    (/\ Len(ordenes) = 1
     /\ Len(orden_productos) = 1
     /\ ordenes[1].mesa \notin MesasVirtuales
     /\ orden_productos[1].estado = "PENDIENTE")
    ~> (/\ ordenes = <<>>
        /\ orden_productos = <<>>
        /\ \A p \in Productos : productos[p].cantidad = StockInicial
        /\ \A m \in Mesas : mesas[m].estado = "LIBRE")

\* C33: an AddItems accepted on a LISTA order puts the order EN_PROCESO,
\* clears its listo_en, adds the new line items to that order as PENDIENTE,
\* and leaves every line item that was there, the LISTO ones included, as
\* it was.
C33_AgregarReabreLista ==
    [][(/\ respuesta'.op = "AddItems"
        /\ respuesta'.ok
        /\ ordenes[respuesta'.id].estado = "LISTA")
       => LET o == respuesta'.id
          IN /\ ordenes'[o].estado = "EN_PROCESO"
             /\ ordenes'[o].listo_en = 0
             /\ Len(orden_productos') > Len(orden_productos)
             /\ \A i \in 1..Len(orden_productos') :
                   IF i \in ItemIds
                   THEN orden_productos'[i] = orden_productos[i]
                   ELSE /\ orden_productos'[i].orden = o
                        /\ orden_productos'[i].estado = "PENDIENTE"]_vars

\* C33 witness: an AddItems was accepted on an order that has a LISTO line
\* item and a stamp of having been LISTA; the order is EN_PROCESO with the
\* LISTO item next to a PENDIENTE one.
C33_Testigo ==
    /\ respuesta.op = "AddItems"
    /\ respuesta.ok
    /\ ordenes[respuesta.id].estado = "EN_PROCESO"
    /\ ordenes[respuesta.id].listo_en = 0
    /\ \E i, j \in ItemIds :
          /\ orden_productos[i].orden = respuesta.id
          /\ orden_productos[j].orden = respuesta.id
          /\ orden_productos[i].estado = "LISTO"
          /\ orden_productos[j].estado = "PENDIENTE"

\* C34: a CreateOrder or an AddItems whose item list is empty or holds a
\* quantity that is not positive is rejected before it writes: no such
\* request raises the quantity of a product, none leaves a line item whose
\* quantity is below one, and an accepted CreateOrder leaves the new order
\* with a line item.
C34_EntradaInvalidaRechazada ==
    [][respuesta'.op \in {"CreateOrder", "AddItems"}
       => /\ \A p \in Productos :
                productos'[p].cantidad <= productos[p].cantidad
          /\ \A i \in 1..Len(orden_productos') :
                i \notin ItemIds => orden_productos'[i].cantidad >= 1
          /\ (respuesta'.op = "CreateOrder" /\ respuesta'.ok)
                => \E i \in 1..Len(orden_productos') :
                      orden_productos'[i].orden = respuesta'.id]_vars

\* C35: no step raises the quantity of a line item that exists: across every
\* step the quantity of each line item is at most what it was, and every
\* line item keeps its order and its product.
C35_CantidadNuncaSube ==
    [][\A i \in ItemIds :
         /\ i <= Len(orden_productos')
         /\ orden_productos'[i].cantidad <= orden_productos[i].cantidad
         /\ orden_productos'[i].orden = orden_productos[i].orden
         /\ orden_productos'[i].producto = orden_productos[i].producto]_vars

\* C36: every table that is not virtual and has an order in NUEVA,
\* EN_PROCESO or LISTA is OCUPADA.
C36_MesaConOrdenActivaOcupada ==
    \A o \in OrdenIds :
        (/\ ordenes[o].estado \in ESTADOS_ORDEN_ACTIVA
         /\ ordenes[o].mesa \notin MesasVirtuales)
        => mesas[ordenes[o].mesa].estado = "OCUPADA"

\* C37: while no worker is inside a handler, an order that is LISTA has no
\* PENDIENTE line item.
C37_ListaSinPendientes ==
    (\A p \in Procesos : ~EnCurso(p))
    => \A o \in OrdenIds :
          ordenes[o].estado = "LISTA" => ItemsPendientes(DB, o) = {}

\* C38: with the post_save receiver not connected every invoice was created
\* by ServeOrder; each such invoice that is NO_PAGADA or PARCIAL has a total
\* equal to the sum of cantidad * precio_unitario over the line items of
\* its order.
C38_TotalDeFacturaServida ==
    ~senal_conectada
    => \A f \in FacturaIds :
          facturas[f].estado_pago \in EstadosPagoPendiente
          => facturas[f].total = calcular_total_orden(DB, facturas[f].orden)

\* C39: the line items of an order are returned to stock by at most one
\* refund: no invoice carries the record of two refunds.
C39_UnSoloReembolso ==
    \A f \in FacturaIds : facturas[f].observaciones <= 1

====
